---- MODULE Spec2Model ----
(***************************************************************************)
(* Verification model of the generative-model notebooks:                   *)
(*   - the WGAN-GP training loop and its loss helpers (C2W1),              *)
(*   - the DDPM noise schedule, perturbation and sampler (L2_Training),    *)
(*   - the NeRF stratified sampling and volume rendering (C2W2),           *)
(*   - the checkpoint writes of the Pix2Pix and DDPM training loops,       *)
(*   - the FID feature collection and frechet_distance (C2W1),             *)
(*   - get_one_hot_labels and combine_vectors (C1W4),                      *)
(*   - the shapes of the U-Net blocks, crop and the U-Net (C3W2A),         *)
(*   - get_gen_loss (C3W2B) and positional_encoding (C2W2),                *)
(*   - the optimizer steps of the three adversarial training loops.        *)
(* Real-valued tensors are modelled by exact rationals <<num, den>> or by  *)
(* integers on a grid on which the modelled arithmetic is exact.           *)
(***************************************************************************)
EXTENDS Integers, Sequences, FiniteSets, TLC

VARIABLES
  \* ---- WGAN-GP training loop (C2W1) ----
  wg_pc,            \* position in the training-loop cell
  n_epochs,         \* range(n_epochs) of this run
  n_batches,        \* len(dataloader) of this run
  epoch,            \* index of the epoch loop
  batch,            \* index of the dataloader loop
  rep,              \* index of `for _ in range(crit_repeats)`
  cur_step,         \* cur_step
  crit_steps,       \* number of crit_opt.step() calls so far
  gen_steps,        \* number of gen_opt.step() calls so far
  batches_done,     \* number of completed bodies of the dataloader loop
  crit_grad,        \* losses accumulated in the critic's .grad
  gen_grad,         \* losses accumulated in the generator's .grad
  n_critic_losses,  \* len(critic_losses)
  n_generator_losses, \* len(generator_losses)
  \* ---- get_gradient (C2W1) ----
  gg_pc,            \* position in get_gradient
  real,             \* a batch of real images: sample -> pixel -> value
  fake,             \* a batch of fake images
  epsilon,          \* per-sample mixing proportion, shape (N, 1, 1, 1)
  crit_w,           \* the critic's parameters
  mixed_images,     \* x_hat
  gradient,         \* the returned gradient
  \* ---- gradient_penalty (C2W1) ----
  pen_pc,           \* position in gradient_penalty
  pen_gradient,     \* the argument: a batch of image gradients
  penalty,          \* the returned penalty
  \* ---- get_crit_loss (C2W1) ----
  cl_pc,            \* position in get_crit_loss
  crit_fake_pred,   \* the critic's scores of the fake images
  crit_real_pred,   \* the critic's scores of the real images
  gp,               \* the unweighted gradient penalty
  c_lambda,         \* the weight of the gradient penalty
  crit_loss,        \* the returned loss
  \* ---- DDPM notebook (L2_Training) ----
  dd_pc,            \* the cell the kernel runs next, top to bottom
  timesteps,        \* the global timesteps
  b_t,              \* the global b_t: index -> value in 1/FX
  a_t,              \* the global a_t
  ab_t,             \* the global ab_t
  checkpoints,      \* the epochs whose model_<ep>.pth exists in save_dir
  view,             \* which of the "View Epoch" cell pairs is next
  nn_loaded,        \* the checkpoint whose parameters nn_model holds
  nn_mode,          \* nn_model's mode: "train" or "eval"
  printed,          \* the number of "Loaded in Model" lines printed
  dd_i,             \* sample_ddpm: the loop variable i
  samples,          \* sample_ddpm: samples (one value, in 1/FX)
  dd_z,             \* sample_ddpm: the value of z of the last step
  injected,         \* denoise_add_noise: the noise term of the last step
  visited,          \* sample_ddpm: the values of i of the steps done so far
  \* ---- perturb_input (L2_Training) ----
  pi_pc,            \* position in perturb_input
  pi_x,             \* x: one value per sample, in 1/FX
  pi_t,             \* t: one timestep per sample
  pi_noise,         \* noise: one value per sample, in 1/FX
  pi_out,           \* the returned tensor
  \* ---- render_rays (C2W2 NeRF), one ray ----
  nr_pc,            \* position in render_rays
  z_vals,           \* the depths of the query points: index -> depth
  alpha,            \* alpha of each query point
  rgb,              \* colour of each query point: index -> channel -> value
  weights,          \* the compositing weights
  rgb_map,          \* the returned colour of the ray
  \* ---- training loops that save checkpoints (C3W2B, L2_Training) ----
  ck_loop,          \* which loop runs: "pix2pix" or "ddpm"
  ck_pc,            \* position in the loop
  save_model,       \* train(save_model)
  ck_n_epochs,      \* n_epochs (Pix2Pix), n_epoch (DDPM)
  ck_n_batches,     \* len(dataloader)
  ck_epoch,         \* epoch (Pix2Pix), ep (DDPM)
  ck_batch,         \* index of the batch within the epoch
  ck_cur_step,      \* cur_step of the Pix2Pix loop
  ck_writes,        \* the torch.save calls made so far
  \* ---- FID feature collection (C2W1) ----
  fid_pc,           \* the cell, and the position in it, that runs next
  dataset_left,     \* the examples the dataloader has not served yet
  real_features_list, \* real_features_list: one entry per appended batch
  fake_features_list, \* fake_features_list
  cur_samples,      \* cur_samples
  fid_printed,      \* the number of "Error in loop" lines printed
  real_features_all,  \* torch.cat(real_features_list), <<>> before it
  fake_features_all,  \* torch.cat(fake_features_list), <<>> before it
  \* ---- one call of a function of the notebooks ----
  fn_pc,            \* "call" before the call, "returned" or "raised" after
  fn_args,          \* the arguments, a record named as the parameters
  fn_ret,           \* the returned value
  \* ---- adversarial training loops (C2W1, C1W4, C3W2B) ----
  tr_loop,          \* which loop runs: "wgan_gp", "cgan" or "pix2pix"
  tr_pc,            \* the statement of the loop body that runs next
  tr_epochs,        \* n_epochs
  tr_batches,       \* len(dataloader)
  tr_epoch,         \* epoch
  tr_batch,         \* index of the batch within the epoch
  tr_iter,          \* number of bodies of the dataloader loop begun
  tr_clock,         \* number of statements executed
  tr_env,           \* the tensors bound to the loop's names
  tr_grad,          \* .grad of each network's parameters
  tr_cleared,       \* what each optimizer's last zero_grad() discarded
  tr_last_step      \* the last step() of each optimizer

wgVars == <<wg_pc, n_epochs, n_batches, epoch, batch, rep, cur_step,
            crit_steps, gen_steps, batches_done, crit_grad, gen_grad,
            n_critic_losses, n_generator_losses>>

ggVars == <<gg_pc, real, fake, epsilon, crit_w, mixed_images, gradient>>

penVars == <<pen_pc, pen_gradient, penalty>>

clVars == <<cl_pc, crit_fake_pred, crit_real_pred, gp, c_lambda, crit_loss>>

ddVars == <<dd_pc, timesteps, b_t, a_t, ab_t, checkpoints, view, nn_loaded,
            nn_mode, printed, dd_i, samples, dd_z, injected, visited>>

piVars == <<pi_pc, pi_x, pi_t, pi_noise, pi_out>>

nrVars == <<nr_pc, z_vals, alpha, rgb, weights, rgb_map>>

ckVars == <<ck_loop, ck_pc, save_model, ck_n_epochs, ck_n_batches, ck_epoch,
            ck_batch, ck_cur_step, ck_writes>>

fidVars == <<fid_pc, dataset_left, real_features_list, fake_features_list,
             cur_samples, fid_printed, real_features_all, fake_features_all>>

fnVars == <<fn_pc, fn_args, fn_ret>>

trVars == <<tr_loop, tr_pc, tr_epochs, tr_batches, tr_epoch, tr_batch,
            tr_iter, tr_clock, tr_env, tr_grad, tr_cleared, tr_last_step>>

vars == <<wgVars, ggVars, penVars, clVars, ddVars, piVars, nrVars, ckVars,
          fidVars, fnVars, trVars>>

\* the state a specification leaves alone
wgRest == <<ggVars, penVars, clVars, ddVars, piVars, nrVars, ckVars,
             fidVars, fnVars, trVars>>
ggRest == <<wgVars, penVars, clVars, ddVars, piVars, nrVars, ckVars,
             fidVars, fnVars, trVars>>
penRest == <<wgVars, ggVars, clVars, ddVars, piVars, nrVars, ckVars,
              fidVars, fnVars, trVars>>
clRest == <<wgVars, ggVars, penVars, ddVars, piVars, nrVars, ckVars,
             fidVars, fnVars, trVars>>
ddRest == <<wgVars, ggVars, penVars, clVars, piVars, nrVars, ckVars,
             fidVars, fnVars, trVars>>
piRest == <<wgVars, ggVars, penVars, clVars, ddVars, nrVars, ckVars,
             fidVars, fnVars, trVars>>
nrRest == <<wgVars, ggVars, penVars, clVars, ddVars, piVars, ckVars,
             fidVars, fnVars, trVars>>
ckRest == <<wgVars, ggVars, penVars, clVars, ddVars, piVars, nrVars,
             fidVars, fnVars, trVars>>

fidRest == <<wgVars, ggVars, penVars, clVars, ddVars, piVars, nrVars, ckVars,
             fnVars, trVars>>
fnRest == <<wgVars, ggVars, penVars, clVars, ddVars, piVars, nrVars, ckVars,
            fidVars, trVars>>
trRest == <<wgVars, ggVars, penVars, clVars, ddVars, piVars, nrVars, ckVars,
            fidVars, fnVars>>

\* the state of a cell that is not run by the specification at hand
wgIdle ==
  /\ wg_pc = "idle"
  /\ n_epochs = 0 /\ n_batches = 0
  /\ epoch = 0 /\ batch = 0 /\ rep = 0 /\ cur_step = 0
  /\ crit_steps = 0 /\ gen_steps = 0 /\ batches_done = 0
  /\ crit_grad = {} /\ gen_grad = {}
  /\ n_critic_losses = 0 /\ n_generator_losses = 0

ggIdle ==
  /\ gg_pc = "idle"
  /\ real = <<>> /\ fake = <<>> /\ epsilon = <<>> /\ crit_w = <<>>
  /\ mixed_images = <<>> /\ gradient = <<>>

penIdle ==
  /\ pen_pc = "idle" /\ pen_gradient = <<>> /\ penalty = <<0, 1>>

clIdle ==
  /\ cl_pc = "idle"
  /\ crit_fake_pred = <<>> /\ crit_real_pred = <<>>
  /\ gp = <<0, 1>> /\ c_lambda = <<0, 1>> /\ crit_loss = <<0, 1>>

ddIdle ==
  /\ dd_pc = "idle" /\ timesteps = 0
  /\ b_t = <<>> /\ a_t = <<>> /\ ab_t = <<>>
  /\ checkpoints = {} /\ view = 0
  /\ nn_loaded = -1 /\ nn_mode = "train" /\ printed = 0
  /\ dd_i = 0 /\ samples = 0 /\ dd_z = 0 /\ injected = 0 /\ visited = <<>>

piIdle ==
  /\ pi_pc = "idle" /\ pi_x = <<>> /\ pi_t = <<>> /\ pi_noise = <<>>
  /\ pi_out = <<>>

nrIdle ==
  /\ nr_pc = "idle" /\ z_vals = <<>> /\ alpha = <<>> /\ rgb = <<>>
  /\ weights = <<>> /\ rgb_map = <<>>

ckIdle ==
  /\ ck_loop = "none" /\ ck_pc = "idle" /\ save_model = FALSE
  /\ ck_n_epochs = 0 /\ ck_n_batches = 0 /\ ck_epoch = 0 /\ ck_batch = 0
  /\ ck_cur_step = 0 /\ ck_writes = {}

fidIdle ==
  /\ fid_pc = "idle" /\ dataset_left = 0
  /\ real_features_list = <<>> /\ fake_features_list = <<>>
  /\ cur_samples = 0 /\ fid_printed = 0
  /\ real_features_all = <<>> /\ fake_features_all = <<>>

fnIdle ==
  /\ fn_pc = "idle" /\ fn_args = <<>> /\ fn_ret = <<>>

trIdle ==
  /\ tr_loop = "idle" /\ tr_pc = 0
  /\ tr_epochs = 0 /\ tr_batches = 0 /\ tr_epoch = 0 /\ tr_batch = 0
  /\ tr_iter = 0 /\ tr_clock = 0
  /\ tr_env = <<>> /\ tr_grad = <<>> /\ tr_cleared = <<>>
  /\ tr_last_step = <<>>

\* every part of the state but the part g is idle
IdleBut(g) ==
  /\ IF g = "wg" THEN TRUE ELSE wgIdle
  /\ IF g = "gg" THEN TRUE ELSE ggIdle
  /\ IF g = "pen" THEN TRUE ELSE penIdle
  /\ IF g = "cl" THEN TRUE ELSE clIdle
  /\ IF g = "dd" THEN TRUE ELSE ddIdle
  /\ IF g = "pi" THEN TRUE ELSE piIdle
  /\ IF g = "nr" THEN TRUE ELSE nrIdle
  /\ IF g = "ck" THEN TRUE ELSE ckIdle
  /\ IF g = "fid" THEN TRUE ELSE fidIdle
  /\ IF g = "fn" THEN TRUE ELSE fnIdle
  /\ IF g = "tr" THEN TRUE ELSE trIdle

----------------------------------------------------------------------------
(* Bounds of the model *)
MaxEpochs == 2
MaxBatches == 3
\* image batches of ImgN samples with ImgP pixels each
ImgN == 2
ImgP == 2
\* square roots are taken to 1/SqrtPrec of the radicand's denominator
SqrtPrec == 100
\* the DDPM notebook sets timesteps = 500 and its analysis cells build
\* tables for timesteps = 1000; the model runs SchedSteps and 2*SchedSteps
SchedSteps == 3
\* the DDPM tensors are fixed-point numbers, in units of 1/FX
FX == 10000
\* render_rays is called with N_samples = DEPTH_SAMPLES = 64; the model
\* renders rays of DepthSamples query points
DepthSamples == 3
\* the stabiliser 1e-10 of the transmittance is 1/StabDen in the model
StabDen == 10
\* the Pix2Pix notebook sets display_step = 200; the model DisplayStep
DisplayStep == 2
\* the DDPM notebook trains n_epoch = 32 epochs; the model up to
\* MaxDdpmEpochs
MaxDdpmEpochs == 6
\* the FID cell sets n_samples = 512 and batch_size = 4; the model
\* FidSamples and FidBatch
FidSamples == 4
FidBatch == 2
\* the Gaussians compared by frechet_distance have FeatN features (2 in
\* the unit test, 2048 for the inception features)
FeatN == 2
\* the conditional GAN has n_classes = 10 classes; the model NClasses
NClasses == 3
\* the U-Net blocks are given images of up to MaxChan channels and sides up
\* to MaxSide
MaxChan == 2
MaxSide == 9
\* crop is given images of sides up to CropSide
CropSide == 4
\* the U-Net is given images of sides up to SideSpan from the unit test's
SideSpan == 12
\* positional_encoding is given points of PosDims coordinates (3 in the
\* notebook) and L_embed up to MaxL (6 in the notebook)
PosDims == 2
MaxL == 3

----------------------------------------------------------------------------
(* Exact rationals <<num, den>> in lowest terms with den > 0: the values of
   the notebooks' float tensors *)
Abs(n) == IF n < 0 THEN -n ELSE n

RECURSIVE GCD(_, _)
GCD(a, b) == IF b = 0 THEN a ELSE GCD(b, a % b)

RNorm(n, d) ==
  LET g == GCD(Abs(n), Abs(d))
      sgn == IF d < 0 THEN -1 ELSE 1
  IN  <<sgn * (n \div g), sgn * (d \div g)>>

Rat(n, d) == RNorm(n, d)
RInt(n) == <<n, 1>>
\* sums are taken over the least common denominator
LCD(a, b) == (a[2] \div GCD(a[2], b[2])) * b[2]
RAdd(a, b) ==
  LET l == LCD(a, b)
  IN  RNorm(a[1] * (l \div a[2]) + b[1] * (l \div b[2]), l)
RSub(a, b) == RAdd(a, <<-b[1], b[2]>>)
RMul(a, b) == RNorm(a[1] * b[1], a[2] * b[2])
RDiv(a, b) == RNorm(a[1] * b[2], a[2] * b[1])
\* comparisons are taken over the least common denominator
RLt(a, b) ==
  LET l == LCD(a, b) IN a[1] * (l \div a[2]) < b[1] * (l \div b[2])
RLe(a, b) ==
  LET l == LCD(a, b) IN a[1] * (l \div a[2]) <= b[1] * (l \div b[2])

\* the largest r in lo..hi with r*r <= n, given lo*lo <= n < (hi+1)*(hi+1)
RECURSIVE IsqrtIn(_, _, _)
IsqrtIn(n, lo, hi) ==
  IF lo = hi THEN lo
  ELSE LET mid == (lo + hi + 1) \div 2
       IN  IF mid * mid <= n THEN IsqrtIn(n, mid, hi)
                             ELSE IsqrtIn(n, lo, mid - 1)

\* 46340 is the largest root of a 32-bit integer
Isqrt(n) == IsqrtIn(n, 0, IF n < 46340 THEN n ELSE 46340)

\* the square root of a >= 0, exact when a is the square of a rational and
\* rounded down to a multiple of 1/(den*SqrtPrec) otherwise
RSqrt(a) ==
  Rat(Isqrt(a[1] * a[2] * SqrtPrec * SqrtPrec), a[2] * SqrtPrec)

\* the sum of f[i] over i in 1..n, f a function or sequence of rationals
RECURSIVE RSum(_, _)
RSum(f, n) == IF n = 0 THEN RInt(0) ELSE RAdd(RSum(f, n - 1), f[n])


----------------------------------------------------------------------------
(* WGAN-GP training loop *)

crit_repeats == 5


\* cur_step = 0; generator_losses = []; critic_losses = []
InitWGAN ==
  /\ wg_pc = "epoch_loop"
  /\ n_epochs \in 1..MaxEpochs
  /\ n_batches \in 1..MaxBatches
  /\ epoch = 0 /\ batch = 0 /\ rep = 0 /\ cur_step = 0
  /\ crit_steps = 0 /\ gen_steps = 0 /\ batches_done = 0
  /\ crit_grad = {} /\ gen_grad = {}
  /\ n_critic_losses = 0 /\ n_generator_losses = 0
  /\ IdleBut("wg")

\* for epoch in range(n_epochs):
EpochLoop ==
  /\ wg_pc = "epoch_loop"
  /\ UNCHANGED wgRest
  /\ IF epoch < n_epochs
       THEN wg_pc' = "batch_loop" /\ batch' = 0
       ELSE wg_pc' = "done" /\ UNCHANGED batch
  /\ UNCHANGED <<n_epochs, n_batches, epoch, rep, cur_step, crit_steps,
                 gen_steps, batches_done, crit_grad, gen_grad,
                 n_critic_losses, n_generator_losses>>

\* for real, _ in tqdm(dataloader): ... mean_iteration_critic_loss = 0
BatchLoop ==
  /\ wg_pc = "batch_loop"
  /\ UNCHANGED wgRest
  /\ IF batch < n_batches
       THEN wg_pc' = "crit_loop" /\ rep' = 0 /\ UNCHANGED epoch
       ELSE wg_pc' = "epoch_loop" /\ epoch' = epoch + 1 /\ UNCHANGED rep
  /\ UNCHANGED <<n_epochs, n_batches, batch, cur_step, crit_steps,
                 gen_steps, batches_done, crit_grad, gen_grad,
                 n_critic_losses, n_generator_losses>>

\* a mutant of CritLoopGuard: one repeat too many
CritLoopGuardOffByOne(r) == r <= crit_repeats

\* for _ in range(crit_repeats):
CritLoopGuard(r) == r < crit_repeats

\* head of the critic loop; on exit: critic_losses += [mean_iteration_critic_loss]
CritLoop ==
  /\ wg_pc = "crit_loop"
  /\ UNCHANGED wgRest
  /\ IF CritLoopGuard(rep)
       THEN wg_pc' = "crit_zero_grad" /\ UNCHANGED n_critic_losses
       ELSE wg_pc' = "gen_zero_grad" /\ n_critic_losses' = n_critic_losses + 1
  /\ UNCHANGED <<n_epochs, n_batches, epoch, batch, rep, cur_step, crit_steps,
                 gen_steps, batches_done, crit_grad, gen_grad,
                 n_generator_losses>>

\* crit_opt.zero_grad()
CritZeroGrad ==
  /\ wg_pc = "crit_zero_grad"
  /\ UNCHANGED wgRest
  /\ crit_grad' = {}
  /\ wg_pc' = "crit_forward"
  /\ UNCHANGED <<n_epochs, n_batches, epoch, batch, rep, cur_step, crit_steps,
                 gen_steps, batches_done, gen_grad,
                 n_critic_losses, n_generator_losses>>

\* fake = gen(fake_noise); crit(fake.detach()); crit(real); get_gradient;
\* gradient_penalty; get_crit_loss
CritForward ==
  /\ wg_pc = "crit_forward"
  /\ UNCHANGED wgRest
  /\ wg_pc' = "crit_backward"
  /\ UNCHANGED <<n_epochs, n_batches, epoch, batch, rep, cur_step, crit_steps,
                 gen_steps, batches_done, crit_grad, gen_grad,
                 n_critic_losses, n_generator_losses>>

\* crit_loss.backward(retain_graph=True): the fake is detached, so the
\* gradient reaches the critic's parameters only
CritBackward ==
  /\ wg_pc = "crit_backward"
  /\ UNCHANGED wgRest
  /\ crit_grad' = crit_grad \cup {"crit_loss"}
  /\ wg_pc' = "crit_step"
  /\ UNCHANGED <<n_epochs, n_batches, epoch, batch, rep, cur_step, crit_steps,
                 gen_steps, batches_done, gen_grad,
                 n_critic_losses, n_generator_losses>>

\* crit_opt.step()
CritStep ==
  /\ wg_pc = "crit_step"
  /\ UNCHANGED wgRest
  /\ crit_steps' = crit_steps + 1
  /\ rep' = rep + 1
  /\ wg_pc' = "crit_loop"
  /\ UNCHANGED <<n_epochs, n_batches, epoch, batch, cur_step,
                 gen_steps, batches_done, crit_grad, gen_grad,
                 n_critic_losses, n_generator_losses>>

\* gen_opt.zero_grad()
GenZeroGrad ==
  /\ wg_pc = "gen_zero_grad"
  /\ UNCHANGED wgRest
  /\ gen_grad' = {}
  /\ wg_pc' = "gen_backward"
  /\ UNCHANGED <<n_epochs, n_batches, epoch, batch, rep, cur_step, crit_steps,
                 gen_steps, batches_done, crit_grad,
                 n_critic_losses, n_generator_losses>>

\* fake_2 = gen(fake_noise_2); crit_fake_pred = crit(fake_2);
\* gen_loss = get_gen_loss(crit_fake_pred); gen_loss.backward():
\* the gradient flows through the critic into the generator
GenBackward ==
  /\ wg_pc = "gen_backward"
  /\ UNCHANGED wgRest
  /\ gen_grad' = gen_grad \cup {"gen_loss"}
  /\ crit_grad' = crit_grad \cup {"gen_loss"}
  /\ wg_pc' = "gen_step"
  /\ UNCHANGED <<n_epochs, n_batches, epoch, batch, rep, cur_step, crit_steps,
                 gen_steps, batches_done,
                 n_critic_losses, n_generator_losses>>

\* gen_opt.step(); generator_losses += [gen_loss.item()]
GenStep ==
  /\ wg_pc = "gen_step"
  /\ UNCHANGED wgRest
  /\ gen_steps' = gen_steps + 1
  /\ n_generator_losses' = n_generator_losses + 1
  /\ wg_pc' = "visualize"
  /\ UNCHANGED <<n_epochs, n_batches, epoch, batch, rep, cur_step, crit_steps,
                 batches_done, crit_grad, gen_grad, n_critic_losses>>

\* visualization code; cur_step += 1; next batch of the dataloader
Visualize ==
  /\ wg_pc = "visualize"
  /\ UNCHANGED wgRest
  /\ cur_step' = cur_step + 1
  /\ batch' = batch + 1
  /\ batches_done' = batches_done + 1
  /\ wg_pc' = "batch_loop"
  /\ UNCHANGED <<n_epochs, n_batches, epoch, rep, crit_steps,
                 gen_steps, crit_grad, gen_grad,
                 n_critic_losses, n_generator_losses>>

NextWGAN ==
  \/ EpochLoop \/ BatchLoop \/ CritLoop \/ CritZeroGrad \/ CritForward
  \/ CritBackward \/ CritStep \/ GenZeroGrad \/ GenBackward \/ GenStep
  \/ Visualize

SpecWGAN == InitWGAN /\ [][NextWGAN]_vars

\* C1: in every batch the critic optimizer is stepped exactly crit_repeats
\* times, all before the single generator step of that batch; after k
\* completed batches there have been k*crit_repeats critic steps and k
\* generator steps.
C1_CriticRepeatsBeforeGenerator ==
  /\ crit_steps - batches_done * crit_repeats \in 0..crit_repeats
  /\ gen_steps - batches_done \in {0, 1}
  /\ gen_steps > batches_done => crit_steps = (batches_done + 1) * crit_repeats
  /\ wg_pc \in {"gen_zero_grad", "gen_backward", "gen_step"}
       => crit_steps = (batches_done + 1) * crit_repeats
  /\ wg_pc \in {"batch_loop", "epoch_loop", "done"}
       => /\ crit_steps = batches_done * crit_repeats
          /\ gen_steps = batches_done

\* a run that has completed two batches and is about to finish a third
C1_Witness ==
  /\ wg_pc = "visualize"
  /\ batches_done = 2
  /\ crit_steps = 3 * crit_repeats
  /\ gen_steps = 3

----------------------------------------------------------------------------
(* get_gradient *)

Samples == 1..ImgN
Pixels == 1..ImgP
HALF == Rat(1, 2)

\* image batches of shape (ImgN, ImgP): real = randn + 1, fake = randn - 1
\* in the unit test; here the values a + b*n + c*p of a few planes
ImageBatches(A) ==
  {[n \in Samples |-> [p \in Pixels |-> RInt(a + b * n + c * p)]] :
     a \in A, b \in {0, 1}, c \in {0, -1}}

\* epsilon = torch.rand(len(real), 1, 1, 1): one proportion per sample
Epsilons == [Samples -> {RInt(0), HALF, RInt(1)}]

\* the critic's parameters: one weight per pixel
CritParams == {[p \in Pixels |-> IF p % 2 = 1 THEN w ELSE -w] : w \in {1, 2}}

\* the critic: a score per sample, nonlinear in the image
crit(w, images) ==
  [n \in DOMAIN images |->
     RSum([p \in Pixels |-> RMul(RInt(w[p]), RMul(images[n][p], images[n][p]))],
          ImgP)]

\* torch.autograd.grad(inputs=images, outputs=crit(images),
\* grad_outputs=ones): the derivative of the summed scores by each pixel
autograd_grad(w, images) ==
  [n \in DOMAIN images |->
     [p \in Pixels |-> RMul(RInt(2 * w[p]), images[n][p])]]

\* mixed_images = real * epsilon + fake * (1 - epsilon)
mix(r, f, eps) ==
  [n \in DOMAIN r |->
     [p \in DOMAIN r[n] |->
        RAdd(RMul(r[n][p], eps[n]),
             RMul(f[n][p], RSub(RInt(1), eps[n])))]]

\* a mutant of get_gradient: inputs=real, the chain rule through the mix
get_gradient_wrt_real(w, r, f, eps) ==
  LET g == autograd_grad(w, mix(r, f, eps))
  IN  [n \in DOMAIN g |-> [p \in DOMAIN g[n] |-> RMul(eps[n], g[n][p])]]

\* get_gradient(crit, real, fake, epsilon)
get_gradient(w, r, f, eps) == autograd_grad(w, mix(r, f, eps))


InitGetGradient ==
  /\ gg_pc = "call"
  /\ real \in ImageBatches({0, 2})
  /\ fake \in ImageBatches({-2, 1})
  /\ epsilon \in Epsilons
  /\ crit_w \in CritParams
  /\ mixed_images = <<>> /\ gradient = <<>>
  /\ IdleBut("gg")

\* mixed_images = real * epsilon + fake * (1 - epsilon)
MixImages ==
  /\ gg_pc = "call"
  /\ mixed_images' = mix(real, fake, epsilon)
  /\ gg_pc' = "mixed"
  /\ UNCHANGED <<real, fake, epsilon, crit_w, gradient>>
  /\ UNCHANGED ggRest

\* mixed_scores = crit(mixed_images); gradient = torch.autograd.grad(...)[0]
TakeGradient ==
  /\ gg_pc = "mixed"
  /\ gradient' = get_gradient(crit_w, real, fake, epsilon)
  /\ gg_pc' = "returned"
  /\ UNCHANGED <<real, fake, epsilon, crit_w, mixed_images>>
  /\ UNCHANGED ggRest

NextGetGradient == MixImages \/ TakeGradient

SpecGetGradient == InitGetGradient /\ [][NextGetGradient]_vars

\* the image batch x with h added to pixel p of sample n
Nudge(x, n, p, h) == [x EXCEPT ![n][p] = RAdd(x[n][p], h)]

\* the slope of the score of sample n along pixel p of the mixed image:
\* the central difference, exact for a quadratic critic
ScoreSlope(w, x, n, p) ==
  RMul(HALF, RSub(crit(w, Nudge(x, n, p, RInt(1)))[n],
                  crit(w, Nudge(x, n, p, RInt(-1)))[n]))

\* C2: get_gradient returns the derivative of the critic's scores by the
\* mixed images real*epsilon + fake*(1-epsilon), in the shape of the image
\* batch; the mix is real where epsilon = 1 and fake where epsilon = 0.
C2_GradientWrtMixedImages ==
  /\ gg_pc \in {"mixed", "returned"} =>
       \A n \in Samples :
         /\ epsilon[n] = RInt(1) => mixed_images[n] = real[n]
         /\ epsilon[n] = RInt(0) => mixed_images[n] = fake[n]
  /\ gg_pc = "returned" =>
       /\ DOMAIN gradient = DOMAIN real
       /\ \A n \in Samples :
            /\ DOMAIN gradient[n] = DOMAIN real[n]
            /\ \A p \in Pixels :
                 gradient[n][p] = ScoreSlope(crit_w, mixed_images, n, p)

\* a returned gradient that is not zero, for a batch mixing a pure real
\* sample, and a half-and-half sample whose real and fake images differ
C2_Witness ==
  /\ gg_pc = "returned"
  /\ epsilon[1] = RInt(1)
  /\ epsilon[2] = HALF
  /\ real[2] # fake[2]
  /\ \E p \in Pixels : gradient[2][p] # RInt(0)

----------------------------------------------------------------------------
(* gradient_penalty *)

\* a row of a flattened gradient batch: v at pixel k and 0 elsewhere
OneHotRow(k, v) == [p \in Pixels |-> IF p = k THEN v ELSE RInt(0)]

\* gradient rows: constant rows (the zero row among them), rows with one
\* entry, and the row (3/5, -4/5, 0, ...) of norm 1
GradientRows ==
  {[p \in Pixels |-> c] : c \in {RInt(0), HALF, RInt(-1)}}
  \cup {OneHotRow(k, v) : k \in Pixels, v \in {RInt(1), RInt(-1), RInt(2)}}
  \cup {[p \in Pixels |-> IF p = 1 THEN Rat(3, 5)
                          ELSE IF p = ImgP THEN Rat(-4, 5) ELSE RInt(0)]}

\* the sum of the squares of a row
SumSq(row) == RSum([p \in Pixels |-> RMul(row[p], row[p])], ImgP)

\* gradient.view(len(gradient), -1).norm(2, dim=1)
gradient_norm(g) == [n \in DOMAIN g |-> RSqrt(SumSq(g[n]))]

\* the mean of a vector of ImgN rationals
Mean(v) == RDiv(RSum(v, ImgN), RInt(ImgN))

\* a mutant of gradient_penalty: the distance is not squared
gradient_penalty_unsquared(g) ==
  Mean([n \in Samples |-> RSub(gradient_norm(g)[n], RInt(1))])

\* penalty = ((gradient_norm - 1) ** 2).mean()
gradient_penalty(g) ==
  Mean([n \in Samples |->
          LET d == RSub(gradient_norm(g)[n], RInt(1)) IN RMul(d, d)])

InitGradientPenalty ==
  /\ pen_pc = "call"
  /\ pen_gradient \in [Samples -> GradientRows]
  /\ penalty = <<0, 1>>
  /\ IdleBut("pen")

GradientPenalty ==
  /\ pen_pc = "call"
  /\ penalty' = gradient_penalty(pen_gradient)
  /\ pen_pc' = "returned"
  /\ UNCHANGED pen_gradient
  /\ UNCHANGED penRest

NextGradientPenalty == GradientPenalty

SpecGradientPenalty == InitGradientPenalty /\ [][NextGradientPenalty]_vars

\* the entries of a row that are not zero
Support(row) == {p \in Pixels : row[p] # RInt(0)}

\* the magnitude of a row with at most one entry: the absolute value of it
SoleMagnitude(row) ==
  IF Support(row) = {} THEN RInt(0)
  ELSE LET v == row[CHOOSE p \in Support(row) : TRUE]
       IN  IF v[1] < 0 THEN RSub(RInt(0), v) ELSE v

\* C3: gradient_penalty is the batch mean of (L2 norm of the flattened
\* sample gradient - 1)^2: 1 for the all-zero gradient, 0 when every
\* sample's gradient has norm 1, never negative.
C3_PenaltyIsMeanSquaredNormDistance ==
  pen_pc = "returned" =>
    /\ penalty[1] >= 0 /\ penalty[2] > 0
    /\ (\A n \in Samples : Support(pen_gradient[n]) = {}) => penalty = RInt(1)
    /\ (\A n \in Samples : SumSq(pen_gradient[n]) = RInt(1)) => penalty = RInt(0)
    /\ (\A n \in Samples : Cardinality(Support(pen_gradient[n])) <= 1) =>
         LET dist(n) == RSub(SoleMagnitude(pen_gradient[n]), RInt(1))
             sq == [n \in Samples |-> RMul(dist(n), dist(n))]
         IN  RMul(penalty, RInt(ImgN)) = RSum(sq, ImgN)

\* a penalty of 0 for a batch of unit-norm gradients that has a sample with
\* several entries
C3_Witness ==
  /\ pen_pc = "returned"
  /\ \A n \in Samples : SumSq(pen_gradient[n]) = RInt(1)
  /\ \E n \in Samples : Cardinality(Support(pen_gradient[n])) > 1
  /\ penalty = RInt(0)

----------------------------------------------------------------------------
(* get_crit_loss *)

\* the critic's scores of a batch: one score per sample
ScoreBatches == [Samples -> {RInt(-20), RInt(2), RInt(20)}]

\* gradient penalties, as gradient_penalty returns them
Penalties == {RInt(0), RInt(2), RInt(3)}

\* penalty weights: 10 in the training loop, 0.1 and 10 in the unit test
Lambdas == {Rat(1, 10), RInt(10)}

\* a mutant of get_crit_loss: the real and the fake score swapped
get_crit_loss_swapped(fake_pred, real_pred, pen, lam) ==
  RAdd(RSub(Mean(real_pred), Mean(fake_pred)), RMul(pen, lam))

\* crit_loss = crit_fake_pred.mean() - crit_real_pred.mean() + gp * c_lambda
get_crit_loss(fake_pred, real_pred, pen, lam) ==
  RAdd(RSub(Mean(fake_pred), Mean(real_pred)), RMul(pen, lam))

InitCritLoss ==
  /\ cl_pc = "call"
  /\ crit_fake_pred \in ScoreBatches
  /\ crit_real_pred \in ScoreBatches
  /\ gp \in Penalties
  /\ c_lambda \in Lambdas
  /\ crit_loss = <<0, 1>>
  /\ IdleBut("cl")

GetCritLoss ==
  /\ cl_pc = "call"
  /\ crit_loss' = get_crit_loss(crit_fake_pred, crit_real_pred, gp, c_lambda)
  /\ cl_pc' = "returned"
  /\ UNCHANGED <<crit_fake_pred, crit_real_pred, gp, c_lambda>>
  /\ UNCHANGED clRest

NextCritLoss == GetCritLoss

SpecCritLoss == InitCritLoss /\ [][NextCritLoss]_vars

\* the sum of a batch of integral scores
ScoreTotal(v) == (RSum(v, ImgN))[1]

----------------------------------------------------------------------------
(* DDPM notebook: noise schedule, perturb_input, sample_ddpm *)

\* beta1 = 1e-4, beta2 = 0.02
beta1 == FX \div 10000
beta2 == (2 * FX) \div 100

\* the analysis cells' own timesteps (1000 against the configured 500)
AnalysisSteps == 2 * SchedSteps

\* fixed-point product, quotient and square root of values in 1/FX
FxMul(x, y) == (x * y) \div FX
FxDiv(x, y) == (x * FX) \div y
FxSqrt(x) == Isqrt(x * FX)

\* b_t = (beta2 - beta1) * torch.linspace(0, 1, timesteps + 1) + beta1
Schedule_b(bt1, bt2, T) ==
  [k \in 0..T |-> ((bt2 - bt1) * k) \div T + bt1]

\* a_t = 1 - b_t
Schedule_a(bt1, bt2, T) ==
  [k \in 0..T |-> FX - Schedule_b(bt1, bt2, T)[k]]

\* torch.cumsum(a_t.log(), dim=0).exp(): the running product of a_t
RECURSIVE CumProd(_, _)
CumProd(a, k) == IF k = 0 THEN a[0] ELSE FxMul(CumProd(a, k - 1), a[k])

\* a mutant of Schedule_ab: without ab_t[0] = 1
Schedule_ab_no_override(bt1, bt2, T) ==
  [k \in 0..T |-> CumProd(Schedule_a(bt1, bt2, T), k)]

\* ab_t = torch.cumsum(a_t.log(), dim=0).exp(); ab_t[0] = 1
Schedule_ab(bt1, bt2, T) ==
  [k \in 0..T |-> IF k = 0 THEN FX ELSE CumProd(Schedule_a(bt1, bt2, T), k)]

\* the epochs of the "View Epoch" cells, in the order of the notebook
ViewEpochs == <<0, 4, 8, 31>>

InitDDPM ==
  /\ dd_pc = "hyperparameters" /\ timesteps = 0
  /\ b_t = <<>> /\ a_t = <<>> /\ ab_t = <<>>
  /\ checkpoints \in SUBSET {0, 4, 8, 31}
  /\ view = 1
  /\ nn_loaded = -1 /\ nn_mode = "train" /\ printed = 0
  /\ dd_i = 0 /\ samples = 0 /\ dd_z = 0 /\ injected = 0 /\ visited = <<>>
  /\ IdleBut("dd")

\* the cell "hyperparameters": timesteps = 500
CellHyperparameters ==
  /\ dd_pc = "hyperparameters"
  /\ timesteps' = SchedSteps
  /\ dd_pc' = "construct_schedule"
  /\ UNCHANGED <<b_t, a_t, ab_t, checkpoints, view, nn_loaded, nn_mode,
                 printed, dd_i, samples, dd_z, injected, visited>>
  /\ UNCHANGED ddRest

\* the cell "construct DDPM noise schedule"
CellConstructSchedule ==
  /\ dd_pc = "construct_schedule"
  /\ b_t' = Schedule_b(beta1, beta2, timesteps)
  /\ a_t' = Schedule_a(beta1, beta2, timesteps)
  /\ ab_t' = Schedule_ab(beta1, beta2, timesteps)
  /\ dd_pc' = "compute_noise_schedule"
  /\ UNCHANGED <<timesteps, checkpoints, view, nn_loaded, nn_mode,
                 printed, dd_i, samples, dd_z, injected, visited>>
  /\ UNCHANGED ddRest

\* the cell ending in
\* b_t, a_t, ab_t = compute_noise_schedule_and_distribution()
\* which builds the tables for its default timesteps=1000
CellComputeNoiseSchedule ==
  /\ dd_pc = "compute_noise_schedule"
  /\ b_t' = Schedule_b(beta1, beta2, AnalysisSteps)
  /\ a_t' = Schedule_a(beta1, beta2, AnalysisSteps)
  /\ ab_t' = Schedule_ab(beta1, beta2, AnalysisSteps)
  /\ dd_pc' = "analyze_xt"
  /\ UNCHANGED <<timesteps, checkpoints, view, nn_loaded, nn_mode,
                 printed, dd_i, samples, dd_z, injected, visited>>
  /\ UNCHANGED ddRest

\* the cell analyze_xt_distribution(): reads ab_t, prints
CellAnalyzeXt ==
  /\ dd_pc = "analyze_xt"
  /\ dd_pc' = "analyze_noise_prediction"
  /\ UNCHANGED <<timesteps, b_t, a_t, ab_t, checkpoints, view, nn_loaded,
                 nn_mode, printed, dd_i, samples, dd_z, injected, visited>>
  /\ UNCHANGED ddRest

\* the cell ending in ab_t = analyze_noise_prediction_theory(), which
\* builds its own table for timesteps = 1000 and returns it
CellAnalyzeNoisePrediction ==
  /\ dd_pc = "analyze_noise_prediction"
  /\ ab_t' = Schedule_ab(beta1, beta2, AnalysisSteps)
  /\ dd_pc' = "load"
  /\ UNCHANGED <<timesteps, b_t, a_t, checkpoints, view, nn_loaded, nn_mode,
                 printed, dd_i, samples, dd_z, injected, visited>>
  /\ UNCHANGED ddRest

\* a mutant of torch_load: a missing file yields a state dict all the same
torch_load_lenient(ep) == [raised |-> FALSE, state_dict |-> ep]

\* torch.load(f"{save_dir}/model_<ep>.pth"): the saved state dict, or
\* FileNotFoundError when the file is missing
torch_load(ep) == [raised |-> ep \notin checkpoints, state_dict |-> ep]

\* a "View Epoch" cell:
\* nn_model.load_state_dict(torch.load(f"{save_dir}/model_<ep>.pth"));
\* nn_model.eval(); print("Loaded in Model")
\* the argument torch.load(...) is evaluated first; there is no try
\* around it, so its exception ends the cell
CellLoad ==
  /\ dd_pc = "load"
  /\ IF ~torch_load(ViewEpochs[view]).raised
       THEN /\ nn_loaded' = torch_load(ViewEpochs[view]).state_dict
            /\ nn_mode' = "eval"
            /\ printed' = printed + 1
            /\ dd_pc' = "sample"
       ELSE /\ dd_pc' = "FileNotFoundError"
            /\ UNCHANGED <<nn_loaded, nn_mode, printed>>
  /\ UNCHANGED <<timesteps, b_t, a_t, ab_t, checkpoints, view,
                 dd_i, samples, dd_z, injected, visited>>
  /\ UNCHANGED ddRest

\* values of torch.randn, in 1/FX
Randn == {-FX, FX}

\* values of nn_model(samples, t), the predicted noise
PredNoise == {0, FX}

\* sample_ddpm: samples = torch.randn(...); intermediate = [];
\* the loop starts at i = timesteps
SampleStart ==
  /\ dd_pc = "sample"
  /\ samples' \in Randn
  /\ dd_i' = timesteps
  /\ visited' = <<>>
  /\ dd_z' = 0 /\ injected' = 0
  /\ dd_pc' = "sample_loop"
  /\ UNCHANGED <<timesteps, b_t, a_t, ab_t, checkpoints, view, nn_loaded,
                 nn_mode, printed>>
  /\ UNCHANGED ddRest

\* noise = b_t.sqrt()[t] * z
denoise_noise(t, z) == FxMul(FxSqrt(b_t[t]), z)

\* mean = (x - pred_noise * ((1 - a_t[t]) / (1 - ab_t[t]).sqrt()))
\*          / a_t[t].sqrt()
denoise_mean(x, t, pred_noise) ==
  FxDiv(x - FxMul(pred_noise, FxDiv(FX - a_t[t], FxSqrt(FX - ab_t[t]))),
        FxSqrt(a_t[t]))

\* denoise_add_noise(x, t, pred_noise, z): z is never None here
denoise_add_noise(x, t, pred_noise, z) ==
  denoise_mean(x, t, pred_noise) + denoise_noise(t, z)

\* a mutant of DrawZ: noise is drawn at the last step too
DrawZAlways(i) == Randn

\* z = torch.randn_like(samples) if i > 1 else 0
DrawZ(i) == IF i > 1 THEN Randn ELSE {0}

\* one iteration of `for i in range(timesteps, 0, -1)`
SampleStep ==
  /\ dd_pc = "sample_loop"
  /\ dd_i > 0
  /\ \E z \in DrawZ(dd_i), eps \in PredNoise :
       /\ dd_z' = z
       /\ injected' = denoise_noise(dd_i, z)
       /\ samples' = denoise_add_noise(samples, dd_i, eps, z)
  /\ visited' = Append(visited, dd_i)
  /\ dd_i' = dd_i - 1
  /\ UNCHANGED <<dd_pc, timesteps, b_t, a_t, ab_t, checkpoints, view,
                 nn_loaded, nn_mode, printed>>
  /\ UNCHANGED ddRest

\* the loop is exhausted: return samples, intermediate; the cell plots
\* them and the kernel goes on to the next "View Epoch" cells, if any
SampleReturn ==
  /\ dd_pc = "sample_loop"
  /\ dd_i = 0
  /\ samples' = 0
  /\ IF view < Len(ViewEpochs)
       THEN view' = view + 1 /\ dd_pc' = "load"
       ELSE dd_pc' = "end" /\ UNCHANGED view
  /\ UNCHANGED <<timesteps, b_t, a_t, ab_t, checkpoints, nn_loaded, nn_mode,
                 printed, dd_i, dd_z, injected, visited>>
  /\ UNCHANGED ddRest

NextDDPM ==
  \/ CellHyperparameters \/ CellConstructSchedule \/ CellComputeNoiseSchedule
  \/ CellAnalyzeXt \/ CellAnalyzeNoisePrediction \/ CellLoad
  \/ SampleStart \/ SampleStep \/ SampleReturn

SpecDDPM == InitDDPM /\ [][NextDDPM]_vars

\* the length of a table indexed from 0
TableLen(tbl) == Cardinality(DOMAIN tbl)

\* C5: once built from (beta1, beta2, timesteps), b_t, a_t and ab_t are
\* not reassigned: whenever sample_ddpm runs, the tables it indexes have
\* length timesteps+1 and are the ones of the configured hyperparameters.
C5_ScheduleBuiltOnce ==
  dd_pc = "sample_loop" =>
    /\ TableLen(b_t) = timesteps + 1
    /\ TableLen(a_t) = timesteps + 1
    /\ TableLen(ab_t) = timesteps + 1
    /\ b_t = Schedule_b(beta1, beta2, timesteps)
    /\ a_t = Schedule_a(beta1, beta2, timesteps)
    /\ ab_t = Schedule_ab(beta1, beta2, timesteps)

\* C6: sample_ddpm visits i = timesteps, timesteps-1, ..., 1 once each, in
\* this order, and then stops; a step with i > 1 injects freshly drawn
\* noise scaled by sqrt(b_t[i]), the step i = 1 injects exactly zero.
C6_SamplerStepsAndFinalNoise ==
  (dd_pc = "sample_loop" \/ visited # <<>>) =>
    /\ dd_i \in 0..timesteps
    /\ Len(visited) = timesteps - dd_i
    /\ \A k \in 1..Len(visited) : visited[k] = timesteps - k + 1
    /\ dd_pc # "sample_loop" => Len(visited) = timesteps
    /\ visited # <<>> =>
         LET i == visited[Len(visited)]
         IN  IF i > 1
               THEN /\ dd_z \in Randn
                    /\ injected * FX <= FxSqrt(b_t[i]) * dd_z
                    /\ FxSqrt(b_t[i]) * dd_z < (injected + 1) * FX
               ELSE injected = 0

\* the loop has run to its end after a step that injected noise
C6_Witness ==
  /\ dd_pc = "sample_loop"
  /\ dd_i = 0
  /\ Len(visited) = timesteps
  /\ visited[Len(visited)] = 1
  /\ injected = 0
  /\ samples # 0

\* C11: a "View Epoch" cell whose checkpoint file is missing ends in
\* FileNotFoundError with the loaded parameters, the train/eval mode and
\* the count of "Loaded in Model" lines as they were before the cell; no
\* cell runs after it.
C11_MissingCheckpointAborts ==
  [][/\ (dd_pc = "load" /\ ViewEpochs[view] \notin checkpoints)
          => /\ dd_pc' = "FileNotFoundError"
             /\ nn_loaded' = nn_loaded
             /\ nn_mode' = nn_mode
             /\ printed' = printed
     /\ dd_pc = "FileNotFoundError" => UNCHANGED vars]_vars

\* the second "View Epoch" cell failed after the first one loaded: the
\* model still holds the epoch-0 weights, one line was printed
C11_Witness ==
  /\ dd_pc = "FileNotFoundError"
  /\ view = 2
  /\ ViewEpochs[view] \notin checkpoints
  /\ nn_loaded = ViewEpochs[1]
  /\ nn_mode = "eval"
  /\ printed = 1

----------------------------------------------------------------------------
(* perturb_input *)

\* perturb_input(x, t, noise):
\* ab_t.sqrt()[t, None, None, None] * x
\*   + (1 - ab_t[t, None, None, None]).sqrt() * noise
perturb_input(x, t, noise) ==
  [n \in DOMAIN x |->
     FxMul(FxSqrt(ab_t[t[n]]), x[n])
       + FxMul(FxSqrt(FX - ab_t[t[n]]), noise[n])]

\* the globals are those of the notebook after the schedule cell, or after
\* the analysis cells that follow it
InitPerturb ==
  /\ pi_pc = "call"
  /\ pi_x \in [Samples -> {-FX, FX \div 2, FX}]
  /\ pi_t \in [Samples -> 0..SchedSteps]
  /\ pi_noise \in [Samples -> Randn]
  /\ pi_out = <<>>
  /\ dd_pc = "idle" /\ timesteps = SchedSteps
  /\ \E T \in {SchedSteps, AnalysisSteps} :
       /\ b_t = Schedule_b(beta1, beta2, T)
       /\ a_t = Schedule_a(beta1, beta2, T)
       /\ ab_t = Schedule_ab(beta1, beta2, T)
  /\ checkpoints = {} /\ view = 0
  /\ nn_loaded = -1 /\ nn_mode = "train" /\ printed = 0
  /\ dd_i = 0 /\ samples = 0 /\ dd_z = 0 /\ injected = 0 /\ visited = <<>>
  /\ wgIdle /\ ggIdle /\ penIdle /\ clIdle /\ nrIdle /\ ckIdle
  /\ fidIdle /\ fnIdle /\ trIdle

PerturbInput ==
  /\ pi_pc = "call"
  /\ pi_out' = perturb_input(pi_x, pi_t, pi_noise)
  /\ pi_pc' = "returned"
  /\ UNCHANGED <<pi_x, pi_t, pi_noise>>
  /\ UNCHANGED piRest

NextPerturb == PerturbInput

SpecPerturb == InitPerturb /\ [][NextPerturb]_vars

\* w*w is the square of the root of r, up to the rounding of the root
IsRootOf(w, r) == w * w <= r * FX /\ r * FX < (w + 1) * (w + 1)

\* C7: perturb_input returns sqrt(ab_t[t])*x + sqrt(1-ab_t[t])*noise per
\* sample; the squares of the two weights sum to 1 for every t in
\* 0..timesteps; at t = 0 the input x is returned unchanged.
C7_PerturbWeights ==
  /\ \A t \in 0..timesteps :
       \A w1 \in {FxSqrt(ab_t[t])}, w2 \in {FxSqrt(FX - ab_t[t])} :
         /\ IsRootOf(w1, ab_t[t])
         /\ IsRootOf(w2, FX - ab_t[t])
         /\ FX * FX - (w1 * w1 + w2 * w2) \in 0..(2 * (w1 + w2) + 1)
  /\ pi_pc = "returned" =>
       \A n \in Samples :
         /\ \A w1 \in {FxSqrt(ab_t[pi_t[n]])},
               w2 \in {FxSqrt(FX - ab_t[pi_t[n]])} :
              pi_out[n] = FxMul(w1, pi_x[n]) + FxMul(w2, pi_noise[n])
         /\ pi_t[n] = 0 => pi_out[n] = pi_x[n]

\* a batch perturbed at t = 0 and at t = timesteps
C7_Witness ==
  /\ pi_pc = "returned"
  /\ pi_t[1] = 0 /\ pi_out[1] = pi_x[1]
  /\ pi_t[2] = timesteps /\ pi_out[2] # pi_x[2]

----------------------------------------------------------------------------
(* NeRF render_rays, for one ray *)

NEAR == 2
FAR == 6

\* the indices of the query points of a ray
Depths == 0..(DepthSamples - 1)

\* torch.linspace(near, far, N_samples): N_samples points, far included
linspace(near, far, N) ==
  [i \in 0..(N - 1) |->
     IF N = 1 THEN RInt(near)
     ELSE RAdd(RInt(near), Rat((far - near) * i, N - 1))]

\* values of torch.rand, in [0, 1)
Rand == {RInt(0), Rat(9, 10)}

\* z_vals = torch.rand(... + [N_samples]) * (far - near) / N_samples + z_vals
stratified(near, far, N, u) ==
  [i \in 0..(N - 1) |->
     RAdd(RMul(u[i], Rat(far - near, N)), linspace(near, far, N)[i])]

\* alpha = 1 - exp(-sigma_a * dists), sigma_a = relu(...) >= 0, dists > 0:
\* 0 where the density is 0, inside (0, 1) elsewhere, and 1 in floats once
\* sigma_a * dists is large, as with the last dists = 1e10
Alphas(i) ==
  IF i = DepthSamples - 1 THEN {RInt(0), HALF, RInt(1)}
  ELSE {RInt(0), Rat(1, 4), HALF}

\* rgb = torch.sigmoid(radiance_fields[..., :3])
Colours == {<<Rat(1, 4), HALF, Rat(3, 4)>>, <<Rat(3, 4), Rat(1, 4), Rat(1, 4)>>}

\* the stabiliser added to 1 - alpha
Stab == Rat(1, StabDen)

\* torch.cumprod(1 - alpha + 1e-10, dim=-1)
RECURSIVE cumprod(_, _)
cumprod(al, i) ==
  LET f == RAdd(RSub(RInt(1), al[i]), Stab)
  IN  IF i = 0 THEN f ELSE RMul(cumprod(al, i - 1), f)

\* torch.roll(x, 1, dims=-1): the last entry comes round to position 0
roll(x, N) == [i \in 0..(N - 1) |-> x[(i + N - 1) % N]]

\* a mutant of transmittance: without weights[..., 0] = 1
transmittance_wrapped(al) ==
  roll([i \in Depths |-> cumprod(al, i)], DepthSamples)

\* weights = torch.roll(torch.cumprod(1 - alpha + 1e-10, dim=-1), 1, dims=-1)
\* weights[..., 0] = 1
transmittance(al) ==
  [roll([i \in Depths |-> cumprod(al, i)], DepthSamples) EXCEPT ![0] = RInt(1)]

\* the sum of f[i] over i in 0..n
RECURSIVE RSum0(_, _)
RSum0(f, n) == IF n = 0 THEN f[0] ELSE RAdd(RSum0(f, n - 1), f[n])

\* rgb_map = (weights[..., None] * rgb).sum(dim=-2)
composite(w, c) ==
  [ch \in 1..3 |-> RSum0([i \in Depths |-> RMul(w[i], c[i][ch])],
                         DepthSamples - 1)]

InitRenderRays ==
  /\ nr_pc = "call"
  /\ z_vals = <<>> /\ alpha = <<>> /\ rgb = <<>>
  /\ weights = <<>> /\ rgb_map = <<>>
  /\ IdleBut("nr")

\* sample query pts, rand=True
SampleDepths ==
  /\ nr_pc = "call"
  /\ \E u \in [Depths -> Rand] :
       z_vals' = stratified(NEAR, FAR, DepthSamples, u)
  /\ nr_pc' = "sampled"
  /\ UNCHANGED <<alpha, rgb, weights, rgb_map>>
  /\ UNCHANGED nrRest

\* run the query points through the model, compute densities and colours,
\* do the volume rendering
VolumeRender ==
  /\ nr_pc = "sampled"
  /\ \E al \in [Depths -> UNION {Alphas(i) : i \in Depths}],
        c \in [Depths -> Colours] :
       /\ \A i \in Depths : al[i] \in Alphas(i)
       /\ alpha' = al
       /\ rgb' = c
       /\ weights' = [i \in Depths |-> RMul(al[i], transmittance(al)[i])]
       /\ rgb_map' = composite(weights', c)
  /\ nr_pc' = "returned"
  /\ UNCHANGED z_vals
  /\ UNCHANGED nrRest

NextRenderRays == SampleDepths \/ VolumeRender

SpecRenderRays == InitRenderRays /\ [][NextRenderRays]_vars

\* the lower edge of the i-th of N_samples even bins of [near, far]
BinEdge(i) == RAdd(RInt(NEAR), Rat((FAR - NEAR) * i, DepthSamples))

\* C8: with rand=True the i-th depth lies in the i-th of N_samples even
\* bins of [near, far], so every depth lies within [near, far].
C8_DepthsInEvenBins ==
  nr_pc \in {"sampled", "returned"} =>
    \A i \in Depths :
      /\ RLe(BinEdge(i), z_vals[i])
      /\ RLe(z_vals[i], BinEdge(i + 1))
      /\ RLe(RInt(NEAR), z_vals[i])
      /\ RLe(z_vals[i], RInt(FAR))

\* T[0] = 1, T[i] = T[i-1] * (1 - alpha[i-1] + stabiliser)
RECURSIVE T(_, _)
T(al, i) ==
  IF i = 0 THEN RInt(1)
  ELSE RMul(T(al, i - 1), RAdd(RSub(RInt(1), al[i - 1]), Stab))

\* the product of 1 - alpha[j] over j < i
RECURSIVE Clear(_, _)
Clear(al, i) ==
  IF i = 0 THEN RInt(1) ELSE RMul(Clear(al, i - 1), RSub(RInt(1), al[i - 1]))

\* C9: weights[i] = alpha[i] * T[i] with T[0] = 1 and T[i] the product
\* over j < i of (1 - alpha[j]), up to the stabiliser; the full-ray product
\* that the roll brings to position 0 is not used; rgb_map is the sum over
\* i of weights[i]*rgb[i].
C9_AlphaCompositing ==
  nr_pc = "returned" =>
    /\ weights[0] = alpha[0]
    /\ \A i \in Depths :
         /\ weights[i] = RMul(alpha[i], T(alpha, i))
         /\ RLe(RMul(alpha[i], Clear(alpha, i)), weights[i])
    /\ \A ch \in 1..3 :
         rgb_map[ch]
           = RSum0([i \in Depths |-> RMul(RMul(alpha[i], T(alpha, i)), rgb[i][ch])],
                   DepthSamples - 1)

\* a ray whose first point is half opaque and whose full-ray product is
\* not 1: the wrapped product would change weights[0]
C9_Witness ==
  /\ nr_pc = "returned"
  /\ alpha[0] = HALF
  /\ cumprod(alpha, DepthSamples - 1) # RInt(1)
  /\ weights[0] = HALF
  /\ \E i \in Depths : i > 0 /\ weights[i] # RInt(0)

----------------------------------------------------------------------------
(* The training loops that write checkpoints: Pix2Pix train(save_model) and
   the DDPM training cell *)

display_step == DisplayStep

\* the DDPM loop saves when ep%4==0
SaveEvery == 4

InitCheckpoints ==
  /\ ck_loop \in {"pix2pix", "ddpm"}
  /\ ck_pc = "batch_loop"
  /\ save_model \in BOOLEAN
  /\ ck_loop = "ddpm" => save_model = FALSE
  /\ ck_n_epochs \in 1..(IF ck_loop = "ddpm" THEN MaxDdpmEpochs ELSE MaxEpochs)
  /\ ck_n_batches \in 1..MaxBatches
  /\ ck_epoch = 0 /\ ck_batch = 0 /\ ck_cur_step = 0
  /\ ck_writes = {}
  /\ IdleBut("ck")

\* a torch.save call: where in the loop it is made
Write(at) ==
  [loop |-> ck_loop, at |-> at, epoch |-> ck_epoch, batch |-> ck_batch,
   step |-> ck_cur_step]

\* a mutant of P2PSaveGuard: the step is not looked at
P2PSaveGuardEveryStep(step, save) == save

\* if cur_step % display_step == 0: ... if save_model:
P2PSaveGuard(step, save) == step % display_step = 0 /\ save

\* Pix2Pix train: the body of `for image, _ in tqdm(dataloader)`: update the
\* discriminator, update the generator, visualize, save, cur_step += 1
P2PTrainBatch ==
  /\ ck_loop = "pix2pix" /\ ck_pc = "batch_loop"
  /\ ck_epoch < ck_n_epochs /\ ck_batch < ck_n_batches
  /\ ck_writes' = IF P2PSaveGuard(ck_cur_step, save_model)
                    THEN ck_writes \cup {Write("batch")}
                    ELSE ck_writes
  /\ ck_cur_step' = ck_cur_step + 1
  /\ ck_batch' = ck_batch + 1
  /\ UNCHANGED <<ck_loop, ck_pc, save_model, ck_n_epochs, ck_n_batches,
                 ck_epoch>>
  /\ UNCHANGED ckRest

\* Pix2Pix train: the dataloader is exhausted, next epoch or return
P2PEpochEnd ==
  /\ ck_loop = "pix2pix" /\ ck_pc = "batch_loop"
  /\ ck_epoch < ck_n_epochs /\ ck_batch = ck_n_batches
  /\ ck_epoch' = ck_epoch + 1
  /\ ck_batch' = 0
  /\ ck_pc' = IF ck_epoch + 1 < ck_n_epochs THEN "batch_loop" ELSE "done"
  /\ UNCHANGED <<ck_loop, save_model, ck_n_epochs, ck_n_batches,
                 ck_cur_step, ck_writes>>
  /\ UNCHANGED ckRest

\* DDPM training: the body of `for x, _ in pbar`: perturb, predict, step
DdpmTrainBatch ==
  /\ ck_loop = "ddpm" /\ ck_pc = "batch_loop"
  /\ ck_epoch < ck_n_epochs /\ ck_batch < ck_n_batches
  /\ ck_batch' = ck_batch + 1
  /\ UNCHANGED <<ck_loop, ck_pc, save_model, ck_n_epochs, ck_n_batches,
                 ck_epoch, ck_cur_step, ck_writes>>
  /\ UNCHANGED ckRest

\* if ep%4==0 or ep == int(n_epoch-1):
DdpmSaveGuard(ep, n_epoch) == ep % SaveEvery = 0 \/ ep = n_epoch - 1

\* DDPM training: after the batches of the epoch, "save model
\* periodically", then the next epoch
DdpmEpochEnd ==
  /\ ck_loop = "ddpm" /\ ck_pc = "batch_loop"
  /\ ck_epoch < ck_n_epochs /\ ck_batch = ck_n_batches
  /\ ck_writes' = IF DdpmSaveGuard(ck_epoch, ck_n_epochs)
                    THEN ck_writes \cup {Write("epoch_end")}
                    ELSE ck_writes
  /\ ck_epoch' = ck_epoch + 1
  /\ ck_batch' = 0
  /\ ck_pc' = IF ck_epoch + 1 < ck_n_epochs THEN "batch_loop" ELSE "done"
  /\ UNCHANGED <<ck_loop, save_model, ck_n_epochs, ck_n_batches, ck_cur_step>>
  /\ UNCHANGED ckRest

NextCheckpoints ==
  P2PTrainBatch \/ P2PEpochEnd \/ DdpmTrainBatch \/ DdpmEpochEnd

SpecCheckpoints == InitCheckpoints /\ [][NextCheckpoints]_vars

\* C10 as stated: every checkpoint write of a training loop is made between
\* epochs, at an interval counted in epochs, never inside the batch loop.
C10_WritesOnlyBetweenEpochs ==
  \A w \in ck_writes : w.at = "epoch_end" /\ w.batch = ck_n_batches

\* C10, amended: the DDPM loop writes after the last batch of an epoch, for
\* every SaveEvery-th epoch and for the last one; Pix2Pix train writes only
\* with save_model, inside the batch loop, at the steps (batches counted
\* across epochs, from 0) that are multiples of display_step, whatever the
\* position of the batch in its epoch.
C10_WritesAtLoopIntervals ==
  /\ \A w \in ck_writes :
       /\ w.loop = "ddpm" =>
            /\ w.at = "epoch_end" /\ w.batch = ck_n_batches
            /\ w.epoch % SaveEvery = 0 \/ w.epoch = ck_n_epochs - 1
       /\ w.loop = "pix2pix" =>
            /\ save_model
            /\ w.at = "batch" /\ w.batch < ck_n_batches
            /\ w.step = w.epoch * ck_n_batches + w.batch
            /\ w.step % display_step = 0
  /\ ck_loop = "ddpm" =>
       \A e \in 0..(ck_epoch - 1) :
         (e % SaveEvery = 0 \/ e = ck_n_epochs - 1)
           => \E w \in ck_writes : w.epoch = e
  /\ ck_loop = "pix2pix" /\ save_model =>
       \A k \in 0..(ck_cur_step - 1) :
         k % display_step = 0 => \E w \in ck_writes : w.step = k
  /\ ck_loop = "pix2pix" /\ ~save_model => ck_writes = {}

\* a Pix2Pix run that has written a checkpoint at a later step with batches
\* of the epoch still to come
C10_Witness ==
  /\ ck_loop = "pix2pix"
  /\ \E w \in ck_writes :
       w.step > 0 /\ w.epoch > 0 /\ w.batch < ck_n_batches - 1

----------------------------------------------------------------------------
(* The FID feature-collection cell and the cell that concatenates the
   collected features *)

n_samples == FidSamples
batch_size == FidBatch

\* the features the inception model gives for a batch, one value per batch
Features == {0, 1}

\* the sizes of the dataset the dataloader serves
DatasetSizes == {FidBatch + 1, 2 * FidSamples}

\* what a pass through the loop body does: it completes, or a call raises
\* before real_features_list.append, or between the two appends
BodyOutcomes == {"completes", "raises_before_appends",
                 "raises_between_appends"}

\* the features of a batch of len examples
Batch(len, f) == [i \in 1..len |-> f]

\* torch.cat(list) of a non-empty list: the entries one after the other
RECURSIVE torch_cat(_)
torch_cat(list) ==
  IF Len(list) = 0 THEN <<>> ELSE Head(list) \o torch_cat(Tail(list))

InitFID ==
  /\ fid_pc = "loop"
  /\ dataset_left \in DatasetSizes
  /\ real_features_list = <<>> /\ fake_features_list = <<>>
  /\ cur_samples = 0 /\ fid_printed = 0
  /\ real_features_all = <<>> /\ fake_features_all = <<>>
  /\ IdleBut("fid")

\* one pass through `for real_example, _ in tqdm(dataloader, ...)` inside
\* `try:`, with the `except: print("Error in loop")` that ends the cell
FeatureBatch ==
  /\ fid_pc = "loop"
  /\ dataset_left > 0
  /\ LET len == IF dataset_left < batch_size THEN dataset_left
                ELSE batch_size
     IN  \E outcome \in BodyOutcomes, rf \in Features, ff \in Features :
           /\ dataset_left' = dataset_left - len
           /\ real_features_list' =
                IF outcome = "raises_before_appends" THEN real_features_list
                ELSE Append(real_features_list, Batch(len, rf))
           /\ fake_features_list' =
                IF outcome = "completes"
                  THEN Append(fake_features_list, Batch(len, ff))
                  ELSE fake_features_list
           /\ cur_samples' =
                IF outcome = "completes" THEN cur_samples + len
                ELSE cur_samples
           /\ fid_printed' =
                IF outcome = "completes" THEN fid_printed
                ELSE fid_printed + 1
           /\ fid_pc' =
                IF outcome = "completes" /\ cur_samples' <= n_samples
                  THEN "loop" ELSE "combine"
  /\ UNCHANGED <<real_features_all, fake_features_all>>
  /\ UNCHANGED fidRest

\* the dataloader is exhausted: the loop and the cell end
LoopExhausted ==
  /\ fid_pc = "loop"
  /\ dataset_left = 0
  /\ fid_pc' = "combine"
  /\ UNCHANGED <<dataset_left, real_features_list, fake_features_list,
                 cur_samples, fid_printed, real_features_all,
                 fake_features_all>>
  /\ UNCHANGED fidRest

\* fake_features_all = torch.cat(fake_features_list)
\* real_features_all = torch.cat(real_features_list)
\* torch.cat raises RuntimeError for an empty list
CellCombine ==
  /\ fid_pc = "combine"
  /\ IF fake_features_list = <<>>
       THEN /\ fid_pc' = "RuntimeError"
            /\ UNCHANGED <<real_features_all, fake_features_all>>
       ELSE /\ fake_features_all' = torch_cat(fake_features_list)
            /\ real_features_all' = torch_cat(real_features_list)
            /\ fid_pc' = "combined"
  /\ UNCHANGED <<dataset_left, real_features_list, fake_features_list,
                 cur_samples, fid_printed>>
  /\ UNCHANGED fidRest

NextFID == FeatureBatch \/ LoopExhausted \/ CellCombine

SpecFID == InitFID /\ [][NextFID]_vars

\* C12: no cell runs on the partial results of a loop whose body raised:
\* the features are concatenated only after a loop that ran without an
\* exception, and then hold as many real examples as fake ones.
C12_NoCellRunsAfterFailedLoop ==
  fid_pc = "combined" =>
    /\ fid_printed = 0
    /\ Len(real_features_all) = Len(fake_features_all)

----------------------------------------------------------------------------
(* frechet_distance and its unit test *)

\* the value None
None == [type |-> "NoneType", shape |-> <<>>, value |-> <<>>]

\* a tensor of the given shape and value
Tensor(shape, value) == [type |-> "Tensor", shape |-> shape, value |-> value]

\* the features of a Gaussian
Feats == 1..FeatN

\* means, as in the unit test: entries 0 and 2
Means == [Feats -> {RInt(0), RInt(2)}]

\* covariance matrices, as in the unit test: the identity (independence)
\* and 2 on the diagonal with -1 beside it (dependence)
Covariances ==
  { [i \in Feats |-> [j \in Feats |-> IF i = j THEN RInt(1) ELSE RInt(0)]],
    [i \in Feats |-> [j \in Feats |->
       IF i = j THEN RInt(2)
       ELSE IF i - j \in {-1, 1} THEN RInt(-1) ELSE RInt(0)]] }

\* def frechet_distance(mu_x, mu_y, sigma_x, sigma_y): return None
frechet_distance(mu_x, mu_y, sigma_x, sigma_y) == None

InitFrechet ==
  /\ fn_pc = "call"
  /\ fn_args \in [mu_x : Means, mu_y : Means,
                  sigma_x : Covariances, sigma_y : Covariances]
  /\ fn_ret = <<>>
  /\ IdleBut("fn")

FrechetDistance ==
  /\ fn_pc = "call"
  /\ fn_ret' = frechet_distance(fn_args.mu_x, fn_args.mu_y,
                                fn_args.sigma_x, fn_args.sigma_y)
  /\ fn_pc' = "returned"
  /\ UNCHANGED fn_args
  /\ UNCHANGED fnRest

NextFrechet == FrechetDistance

SpecFrechet == InitFrechet /\ [][NextFrechet]_vars

\* C13: frechet_distance returns a scalar tensor, one on which .item() can
\* be called, and frechet_distance(mu, mu, sigma, sigma) is 0.
C13_FrechetScalarAndZeroOnIdentical ==
  fn_pc = "returned" =>
    /\ fn_ret.type = "Tensor"
    /\ fn_ret.shape = <<>>
    /\ (fn_args.mu_x = fn_args.mu_y /\ fn_args.sigma_x = fn_args.sigma_y)
         => fn_ret.value = RInt(0)

----------------------------------------------------------------------------
(* get_one_hot_labels of the conditional GAN.  A tensor holds its shape and
   its entries in row-major order. *)

\* the number of entries of a tensor of the given shape
RECURSIVE numel(_)
numel(shape) == IF shape = <<>> THEN 1 ELSE Head(shape) * numel(Tail(shape))

\* the shapes of the labels: (?) from the dataloader, (1, ?) in the unit test
LabelShapes == {<<2>>, <<3>>, <<1, 2>>}

\* the tensors of class labels of a given shape
LabelTensors(shape) ==
  {Tensor(shape, d) : d \in [1..numel(shape) -> 0..(NClasses - 1)]}

\* torch.zeros(shape)
zeros(shape) == Tensor(shape, [k \in 1..numel(shape) |-> 0])

\* a mutant of scatter_last: the ones land one class further
RECURSIVE scatter_last_shifted(_, _, _, _)
scatter_last_shifted(out, index, n, i) ==
  IF i = 0 THEN out
  ELSE LET prev == scatter_last_shifted(out, index, n, i - 1)
       IN  [prev EXCEPT !.value[(i - 1) * n + ((index.value[i] + 1) % n) + 1] = 1]

\* out.scatter_(-1, index.unsqueeze(-1), 1), for the first i entries of
\* index: entry index[i] of the i-th row of length n becomes 1
RECURSIVE scatter_last(_, _, _, _)
scatter_last(out, index, n, i) ==
  IF i = 0 THEN out
  ELSE LET prev == scatter_last(out, index, n, i - 1)
       IN  [prev EXCEPT !.value[(i - 1) * n + index.value[i] + 1] = 1]

\* F.one_hot(labels, n_classes) raises when a label is not below n_classes
one_hot_raises(labels, n) ==
  \E k \in DOMAIN labels.value : labels.value[k] >= n \/ labels.value[k] < 0

\* F.one_hot(labels, n_classes): zeros of shape labels.shape + (n_classes,)
\* with a 1 scattered along the last dimension at each label
one_hot(labels, n) ==
  scatter_last(zeros(labels.shape \o <<n>>), labels, n, numel(labels.shape))

\* return F.one_hot(labels, n_classes)
get_one_hot_labels(labels, n) == one_hot(labels, n)

InitOneHot ==
  /\ fn_pc = "call"
  /\ \E shape \in LabelShapes :
       fn_args \in [labels : LabelTensors(shape),
                    n_classes : {NClasses - 1, NClasses}]
  /\ fn_ret = <<>>
  /\ IdleBut("fn")

GetOneHotLabels ==
  /\ fn_pc = "call"
  /\ IF one_hot_raises(fn_args.labels, fn_args.n_classes)
       THEN fn_pc' = "raised" /\ UNCHANGED fn_ret
       ELSE /\ fn_ret' = get_one_hot_labels(fn_args.labels, fn_args.n_classes)
            /\ fn_pc' = "returned"
  /\ UNCHANGED fn_args
  /\ UNCHANGED fnRest

NextOneHot == GetOneHotLabels

SpecOneHot == InitOneHot /\ [][NextOneHot]_vars

\* C14: for labels in 0..n_classes-1 the result has the shape of labels
\* with one more dimension of size n_classes, and the vector of each label
\* k holds 1 at index k and 0 at every other index.
C14_OneHotRows ==
  (fn_pc # "call"
     /\ \A k \in DOMAIN fn_args.labels.value :
          fn_args.labels.value[k] \in 0..(fn_args.n_classes - 1)) =>
    /\ fn_pc = "returned"
    /\ fn_ret.type = "Tensor"
    /\ fn_ret.shape = fn_args.labels.shape \o <<fn_args.n_classes>>
    /\ Len(fn_ret.value) = numel(fn_ret.shape)
    /\ \A i \in 1..numel(fn_args.labels.shape), j \in 0..(fn_args.n_classes - 1) :
         fn_ret.value[(i - 1) * fn_args.n_classes + j + 1]
           = IF j = fn_args.labels.value[i] THEN 1 ELSE 0

\* the labels of the unit test's kind: a batch of shape (1, ?) whose labels
\* differ, the last class among them
C14_Witness ==
  /\ fn_pc = "returned"
  /\ Len(fn_args.labels.shape) = 2
  /\ fn_args.labels.value[1] # fn_args.labels.value[2]
  /\ \E k \in DOMAIN fn_args.labels.value :
       fn_args.labels.value[k] = fn_args.n_classes - 1
  /\ \E k \in DOMAIN fn_ret.value : fn_ret.value[k] = 1

----------------------------------------------------------------------------
(* combine_vectors of the conditional GAN.  An int64 tensor holds integers
   <<k>>, a float32 tensor holds rationals <<num, den>>. *)

\* the int64 value k
Long(k) == <<k>>

\* a tensor with its dtype
DTensor(dtype, shape, value) ==
  [type |-> "Tensor", dtype |-> dtype, shape |-> shape, value |-> value]

\* the value v of dtype from, converted to dtype to
convert(v, from, to) ==
  IF from = to THEN v
  ELSE IF to = "float32" THEN RInt(v[1])
  ELSE Long(v[1] \div v[2])

\* a mutant of float: the tensor is handed on as it is
float_skipped(t) == t

\* t.float()
float(t) ==
  DTensor("float32", t.shape,
          [k \in DOMAIN t.value |-> convert(t.value[k], t.dtype, "float32")])

\* the dtype torch.cat gives tensors of dtypes d1 and d2
promote(d1, d2) == IF "float32" \in {d1, d2} THEN "float32" ELSE d1

\* the entries of t[i] in row-major order, i counted from 1
block(t, i) ==
  LET size == numel(Tail(t.shape))
  IN  SubSeq(t.value, (i - 1) * size + 1, i * size)

\* torch.cat raises unless the tensors agree in every dimension but dim
cat1_raises(x, y) ==
  \/ Len(x.shape) # Len(y.shape)
  \/ \E d \in DOMAIN x.shape : d # 2 /\ x.shape[d] # y.shape[d]

\* the first n blocks of torch.cat((x, y), dim=1): for each index of
\* dimension 0 the entries of x, then those of y
RECURSIVE cat1_value(_, _, _)
cat1_value(x, y, n) ==
  IF n = 0 THEN <<>>
  ELSE LET d == promote(x.dtype, y.dtype)
           bx == block(x, n)
           by == block(y, n)
       IN  cat1_value(x, y, n - 1)
             \o [k \in DOMAIN bx |-> convert(bx[k], x.dtype, d)]
             \o [k \in DOMAIN by |-> convert(by[k], y.dtype, d)]

\* torch.cat((x, y), dim=1)
cat1(x, y) ==
  DTensor(promote(x.dtype, y.dtype),
          [x.shape EXCEPT ![2] = x.shape[2] + y.shape[2]],
          cat1_value(x, y, x.shape[1]))

\* combined = torch.cat((x.float(), y.float()), dim=1); return combined
combine_vectors(x, y) == cat1(float(x), float(y))

\* the shapes of the arguments: (n_samples, ?) and, as in the unit test,
\* (1, ?, ?)
VectorShapes == {<<2, 2>>, <<2, 1>>, <<1, 2, 2>>, <<1, 1, 2>>}

\* tensors with entries that differ from each other: base+1, base+2, ...
\* for int64 and base+1/2, base+3/2, ... for float32
Vectors(bases) ==
  { DTensor(dtype, shape,
            [k \in 1..numel(shape) |->
               IF dtype = "int64" THEN Long(base + k)
               ELSE Rat(2 * (base + k) - 1, 2)]) :
      dtype \in {"int64", "float32"}, shape \in VectorShapes,
      base \in bases }

InitCombine ==
  /\ fn_pc = "call"
  /\ fn_args \in [x : Vectors({0, 4}), y : Vectors({10, 20})]
  /\ fn_ret = <<>>
  /\ IdleBut("fn")

CombineVectors ==
  /\ fn_pc = "call"
  /\ IF cat1_raises(float(fn_args.x), float(fn_args.y))
       THEN fn_pc' = "raised" /\ UNCHANGED fn_ret
       ELSE /\ fn_ret' = combine_vectors(fn_args.x, fn_args.y)
            /\ fn_pc' = "returned"
  /\ UNCHANGED fn_args
  /\ UNCHANGED fnRest

NextCombine == CombineVectors

SpecCombine == InitCombine /\ [][NextCombine]_vars

\* the entry of the tensor t at index (i, j, k), each counted from 0, with k
\* running over the dimensions after dimension 1 taken together
At(t, i, j, k) ==
  LET inner == numel(Tail(Tail(t.shape)))
  IN  t.value[(i * t.shape[2] + j) * inner + k + 1]

\* C15: the result is float32 whatever the dtypes of x and y, has size
\* x.shape[1] + y.shape[1] in dimension 1 and the sizes of x elsewhere, and
\* along dimension 1 holds the entries of x, converted to float, followed by
\* those of y, each at its place in the other dimensions.
C15_CombineVectors ==
  fn_pc = "returned" =>
    LET x == fn_args.x
        y == fn_args.y
        inner == numel(Tail(Tail(x.shape)))
    IN  /\ fn_ret.dtype = "float32"
        /\ Len(fn_ret.shape) = Len(x.shape)
        /\ fn_ret.shape[2] = x.shape[2] + y.shape[2]
        /\ \A d \in DOMAIN x.shape : d # 2 => fn_ret.shape[d] = x.shape[d]
        /\ Len(fn_ret.value) = numel(fn_ret.shape)
        /\ \A i \in 0..(x.shape[1] - 1), k \in 0..(inner - 1) :
             /\ \A j \in 0..(x.shape[2] - 1) :
                  At(fn_ret, i, j, k)
                    = convert(At(x, i, j, k), x.dtype, "float32")
             /\ \A j \in 0..(y.shape[2] - 1) :
                  At(fn_ret, i, x.shape[2] + j, k)
                    = convert(At(y, i, j, k), y.dtype, "float32")

\* two int64 matrices of two rows, as in the unit test
C15_Witness ==
  /\ fn_pc = "returned"
  /\ fn_args.x.dtype = "int64" /\ fn_args.y.dtype = "int64"
  /\ fn_args.x.shape = <<2, 2>> /\ fn_args.y.shape = <<2, 2>>
  /\ fn_ret.shape = <<2, 4>>
  /\ fn_ret.dtype = "float32"

----------------------------------------------------------------------------
(* The shapes of the U-Net blocks (C3W2A).  A layer maps the shape
   (N, C, H, W) of its input to the shape of its output, or raises. *)

\* the outcome of a layer: a shape, or an exception
Shaped(shape) == [raised |-> FALSE, shape |-> shape]
Raises == [raised |-> TRUE, shape |-> <<>>]

\* nn.Conv2d(in_channels, out_channels, kernel_size=k) applied to r: no
\* padding, stride 1.  The channels of the input must be in_channels and
\* the kernel must fit in the input.
Conv2d(in_channels, out_channels, k, r) ==
  IF r.raised THEN Raises
  ELSE IF r.shape[2] # in_channels \/ r.shape[3] < k \/ r.shape[4] < k
    THEN Raises
  ELSE Shaped(<<r.shape[1], out_channels,
                r.shape[3] - (k - 1), r.shape[4] - (k - 1)>>)

\* nn.ReLU() keeps the shape
ReLU(r) == r

\* a mutant of MaxPool2d: the output size is rounded up
MaxPool2dCeil(k, stride, r) ==
  IF r.raised THEN Raises
  ELSE IF r.shape[3] < k \/ r.shape[4] < k THEN Raises
  ELSE Shaped(<<r.shape[1], r.shape[2],
                ((r.shape[3] - k + stride - 1) \div stride) + 1,
                ((r.shape[4] - k + stride - 1) \div stride) + 1>>)

\* nn.MaxPool2d(kernel_size=k, stride=stride) applied to r: the output size
\* floor((size - k) / stride) + 1 must be at least 1
MaxPool2d(k, stride, r) ==
  IF r.raised THEN Raises
  ELSE IF r.shape[3] < k \/ r.shape[4] < k THEN Raises
  ELSE Shaped(<<r.shape[1], r.shape[2],
                ((r.shape[3] - k) \div stride) + 1,
                ((r.shape[4] - k) \div stride) + 1>>)

\* ContractingBlock(input_channels): the outcomes of conv1 and conv2 applied
\* as forward applies them
ContractingConv1(input_channels, r) ==
  Conv2d(input_channels, input_channels * 2, 3, r)

ContractingConv2(input_channels, r) ==
  Conv2d(input_channels * 2, input_channels * 2, 3,
         ReLU(ContractingConv1(input_channels, r)))

\* ContractingBlock(input_channels).forward(x)
ContractingBlock(input_channels, r) ==
  MaxPool2d(2, 2, ReLU(ContractingConv2(input_channels, r)))

\* the shapes of the image tensors given to a block
ImageShapes ==
  {<<n, c, h, w>> : n \in 1..2, c \in 1..MaxChan, h \in 1..MaxSide,
                    w \in 1..MaxSide}

InitContracting ==
  /\ fn_pc = "call"
  /\ fn_args \in [input_channels : 1..MaxChan, x : ImageShapes]
  /\ fn_ret = <<>>
  /\ IdleBut("fn")

\* test_block.conv1(test_in), test_block.conv2(...), test_block(test_in)
ContractingForward ==
  /\ fn_pc = "call"
  /\ LET x == Shaped(fn_args.x)
         c == fn_args.input_channels
     IN  /\ fn_ret' = [conv1 |-> ContractingConv1(c, x),
                       conv2 |-> ContractingConv2(c, x),
                       out |-> ContractingBlock(c, x)]
         /\ fn_pc' = IF ContractingBlock(c, x).raised THEN "raised"
                     ELSE "returned"
  /\ UNCHANGED fn_args
  /\ UNCHANGED fnRest

NextContracting == ContractingForward

SpecContracting == InitContracting /\ [][NextContracting]_vars

\* C16 as stated: an input (N, C, s, s) of a block built for C channels
\* gives (N, 2C, s//2 - 2, s//2 - 2) for every side s.
C16_ContractingShapeEverySide ==
  (fn_pc # "call" /\ fn_args.x[2] = fn_args.input_channels
     /\ fn_args.x[3] = fn_args.x[4]) =>
    /\ fn_pc = "returned"
    /\ fn_ret.out.shape
         = <<fn_args.x[1], 2 * fn_args.x[2],
             (fn_args.x[3] \div 2) - 2, (fn_args.x[4] \div 2) - 2>>

\* the smallest side the block accepts: each 3x3 convolution takes 2 pixels
\* and the pooling needs its 2x2 window
MinContractingSide == (3 - 1) + (3 - 1) + 2

\* C16, amended: for sides of at least 6, even or odd, conv1 gives
\* (N, 2C, H-2, W-2), conv2 gives (N, 2C, H-4, W-4) and the block gives
\* (N, 2C, H//2 - 2, W//2 - 2); with a smaller side, or with another number
\* of channels than the block was built for, the block raises.
C16_ContractingShape ==
  fn_pc # "call" =>
    LET x == fn_args.x
    IN  IF x[2] = fn_args.input_channels /\ x[3] >= MinContractingSide
           /\ x[4] >= MinContractingSide
          THEN /\ fn_pc = "returned"
               /\ fn_ret.conv1.shape = <<x[1], 2 * x[2], x[3] - 2, x[4] - 2>>
               /\ fn_ret.conv2.shape = <<x[1], 2 * x[2], x[3] - 4, x[4] - 4>>
               /\ fn_ret.out.shape
                    = <<x[1], 2 * x[2], (x[3] \div 2) - 2, (x[4] \div 2) - 2>>
          ELSE fn_pc = "raised"

\* a square input of odd side: the pooling drops the last row and column
C16_Witness ==
  /\ fn_pc = "returned"
  /\ fn_args.x[3] = fn_args.x[4]
  /\ fn_args.x[3] % 2 = 1
  /\ fn_ret.conv2.shape[3] % 2 = 1
  /\ fn_ret.out.shape[3] = (fn_args.x[3] \div 2) - 2

----------------------------------------------------------------------------
(* crop of the U-Net.  An image tensor is a sequence over the batch of
   sequences over the channels of sequences of rows; the pixel at
   (n, c, i, j), each counted from 0, holds <<n, c, i, j>>. *)

\* the image tensor of shape (N, C, h, w)
Image(N, C, h, w) ==
  [n \in 1..N |-> [c \in 1..C |-> [i \in 1..h |-> [j \in 1..w |->
     <<n - 1, c - 1, i - 1, j - 1>>]]]]

\* a bound of a Python slice of a sequence of length len: negative bounds
\* count from the end, bounds beyond the sequence are clipped
SliceBound(b, len) ==
  LET fromEnd == IF b < 0 THEN b + len ELSE b
  IN  IF fromEnd < 0 THEN 0 ELSE IF fromEnd > len THEN len ELSE fromEnd

\* seq[start:end]
Slice(seq, start, end) ==
  LET lo == SliceBound(start, Len(seq))
      hi == SliceBound(end, Len(seq))
  IN  IF lo >= hi THEN <<>> ELSE SubSeq(seq, lo + 1, hi)

\* a mutant of crop_start: the crop is taken from the corner
crop_start_corner(size, new_size) == 0

\* start_h = (h - new_h) // 2, start_w = (w - new_w) // 2
crop_start(size, new_size) == (size - new_size) \div 2

\* crop(image, new_shape):
\* image[:, :, start_h:end_h, start_w:end_w]
crop(image, new_shape) ==
  LET h == Len(image[1][1])
      w == Len(image[1][1][1])
      new_h == new_shape[3]
      new_w == new_shape[4]
      start_h == crop_start(h, new_h)
      end_h == start_h + new_h
      start_w == crop_start(w, new_w)
      end_w == start_w + new_w
  IN  [n \in DOMAIN image |-> [c \in DOMAIN image[n] |->
        LET rows == Slice(image[n][c], start_h, end_h)
        IN  [i \in DOMAIN rows |-> Slice(rows[i], start_w, end_w)]]]

\* the batch sizes and channel counts of the images
CropBatches == {<<1, 1>>, <<2, 1>>, <<1, 2>>}

InitCrop ==
  /\ fn_pc = "call"
  /\ \E nc \in CropBatches, h \in 1..CropSide, w \in 1..CropSide,
        new_h \in 0..(CropSide + 1), new_w \in 0..(CropSide + 1) :
       fn_args = [image |-> Image(nc[1], nc[2], h, w),
                  new_shape |-> <<1, 1, new_h, new_w>>]
  /\ fn_ret = <<>>
  /\ IdleBut("fn")

Crop ==
  /\ fn_pc = "call"
  /\ fn_ret' = crop(fn_args.image, fn_args.new_shape)
  /\ fn_pc' = "returned"
  /\ UNCHANGED fn_args
  /\ UNCHANGED fnRest

NextCrop == Crop

SpecCrop == InitCrop /\ [][NextCrop]_vars

\* C17: when new_h <= h and new_w <= w the result has the batches and
\* channels of the image and exactly new_h rows of new_w pixels each, and
\* its pixel (i, j) is the image's pixel ((h - new_h)//2 + i,
\* (w - new_w)//2 + j).
C17_CropCentre ==
  LET image == fn_args.image
      h == Len(image[1][1])
      w == Len(image[1][1][1])
      new_h == fn_args.new_shape[3]
      new_w == fn_args.new_shape[4]
  IN  (fn_pc = "returned" /\ new_h <= h /\ new_w <= w) =>
        /\ Len(fn_ret) = Len(image)
        /\ \A n \in DOMAIN fn_ret :
             /\ Len(fn_ret[n]) = Len(image[n])
             /\ \A c \in DOMAIN fn_ret[n] :
                  /\ Len(fn_ret[n][c]) = new_h
                  /\ \A i \in 1..new_h :
                       /\ Len(fn_ret[n][c][i]) = new_w
                       /\ \A j \in 1..new_w :
                            fn_ret[n][c][i][j]
                              = <<n - 1, c - 1,
                                  ((h - new_h) \div 2) + i - 1,
                                  ((w - new_w) \div 2) + j - 1>>

\* a crop that leaves an odd number of rows and at least two columns out,
\* from an image of more than one channel
C17_Witness ==
  /\ fn_pc = "returned"
  /\ Len(fn_args.image[1]) = 2
  /\ (Len(fn_args.image[1][1]) - fn_args.new_shape[3]) % 2 = 1
  /\ fn_args.new_shape[3] > 0
  /\ fn_args.new_shape[4] > 0
  /\ Len(fn_args.image[1][1][1]) - fn_args.new_shape[4] >= 2
  /\ Len(fn_ret[1][2]) = fn_args.new_shape[3]
  /\ fn_ret[1][2][1][1][4] > 0

----------------------------------------------------------------------------
(* The shapes of the whole U-Net and of its training data *)

hidden_channels == 64
input_dim == 1
label_dim == 1
initial_shape == 512
target_shape == 373

\* the side of the unit test's image
TestSide == 256

\* the number of rows of seq[start:end] for a sequence of size rows
slice_size(size, start, end) ==
  LET lo == SliceBound(start, size)
      hi == SliceBound(end, size)
  IN  IF lo >= hi THEN 0 ELSE hi - lo

\* the shape of crop(image, new_shape) for an image of the shape r holds
crop_shape(r, new_shape) ==
  IF r.raised THEN Raises
  ELSE LET start_h == crop_start(r.shape[3], new_shape[3])
           start_w == crop_start(r.shape[4], new_shape[4])
       IN  Shaped(<<r.shape[1], r.shape[2],
                    slice_size(r.shape[3], start_h, start_h + new_shape[3]),
                    slice_size(r.shape[4], start_w, start_w + new_shape[4])>>)

\* a mutant of Upsample: the size is kept
UpsampleSame(scale_factor, r) == r

\* nn.Upsample(scale_factor=2, mode='bilinear', align_corners=True)
Upsample(scale_factor, r) ==
  IF r.raised THEN Raises
  ELSE Shaped(<<r.shape[1], r.shape[2], r.shape[3] * scale_factor,
                r.shape[4] * scale_factor>>)

\* torch.cat([x, skip_con_x], axis=1) raises unless the two agree in every
\* dimension but the channels
cat_channels(x, skip) ==
  IF x.raised \/ skip.raised THEN Raises
  ELSE IF \E d \in {1, 3, 4} : x.shape[d] # skip.shape[d] THEN Raises
  ELSE Shaped([x.shape EXCEPT ![2] = x.shape[2] + skip.shape[2]])

\* ExpandingBlock(input_channels).forward(x, skip_con_x)
ExpandingBlock(input_channels, x, skip_con_x) ==
  LET up == Conv2d(input_channels, input_channels \div 2, 2, Upsample(2, x))
      skip == IF up.raised THEN Raises ELSE crop_shape(skip_con_x, up.shape)
      conv2 == Conv2d(input_channels, input_channels \div 2, 3,
                      cat_channels(up, skip))
  IN  ReLU(Conv2d(input_channels \div 2, input_channels \div 2, 3,
                  ReLU(conv2)))

\* FeatureMapBlock(input_channels, output_channels).forward(x)
FeatureMapBlock(input_channels, output_channels, x) ==
  Conv2d(input_channels, output_channels, 1, x)

\* UNet(input_channels, output_channels).forward(x)
UNet(input_channels, output_channels, x) ==
  LET x0 == FeatureMapBlock(input_channels, hidden_channels, x)
      x1 == ContractingBlock(hidden_channels, x0)
      x2 == ContractingBlock(hidden_channels * 2, x1)
      x3 == ContractingBlock(hidden_channels * 4, x2)
      x4 == ContractingBlock(hidden_channels * 8, x3)
      x5 == ExpandingBlock(hidden_channels * 16, x4, x3)
      x6 == ExpandingBlock(hidden_channels * 8, x5, x2)
      x7 == ExpandingBlock(hidden_channels * 4, x6, x1)
      x8 == ExpandingBlock(hidden_channels * 2, x7, x0)
  IN  FeatureMapBlock(hidden_channels, output_channels, x8)

\* the sides of the images given to the U-Net: those around the unit
\* test's, the training images' and one too small for the network
UNetSides ==
  (TestSide - SideSpan)..(TestSide + SideSpan)
    \cup {initial_shape, MaxSide}

InitUNet ==
  /\ fn_pc = "call"
  /\ \E n \in 1..2, c \in 1..MaxChan, s \in UNetSides :
       fn_args \in [input_channels : 1..MaxChan,
                    output_channels : {label_dim, 3},
                    x : {<<n, c, s, s>>}]
  /\ fn_ret = <<>>
  /\ IdleBut("fn")

\* unet = UNet(input_channels, output_channels); pred = unet(x)
UNetForward ==
  /\ fn_pc = "call"
  /\ fn_ret' = UNet(fn_args.input_channels, fn_args.output_channels,
                    Shaped(fn_args.x))
  /\ fn_pc' = IF fn_ret'.raised THEN "raised" ELSE "returned"
  /\ UNCHANGED fn_args
  /\ UNCHANGED fnRest

NextUNet == UNetForward

SpecUNet == InitUNet /\ [][NextUNet]_vars

\* the shape of the labels of a batch of n training images:
\* labels = crop(labels, torch.Size([len(labels), 1, target_shape,
\* target_shape])) for label images of side initial_shape
labels_shape(n) ==
  crop_shape(Shaped(<<n, label_dim, initial_shape, initial_shape>>),
             <<n, label_dim, target_shape, target_shape>>)

\* C18: UNet(input_channels, output_channels) maps (N, input_channels,
\* 256, 256) to (N, output_channels, 117, 117) and an input of side
\* initial_shape to side target_shape, so the prediction of
\* UNet(input_dim, label_dim) in train() has the shape of the cropped
\* labels.
C18_UNetShapes ==
  (fn_pc # "call" /\ fn_args.x[2] = fn_args.input_channels) =>
    /\ fn_args.x[3] = TestSide =>
         /\ fn_pc = "returned"
         /\ fn_ret.shape = <<fn_args.x[1], fn_args.output_channels, 117, 117>>
    /\ fn_args.x[3] = initial_shape =>
         /\ fn_pc = "returned"
         /\ fn_ret.shape = <<fn_args.x[1], fn_args.output_channels,
                             target_shape, target_shape>>
         /\ (fn_args.input_channels = input_dim
               /\ fn_args.output_channels = label_dim)
              => fn_ret = labels_shape(fn_args.x[1])

\* the forward pass of train(): a batch of training images through
\* UNet(input_dim, label_dim)
C18_Witness ==
  /\ fn_pc = "returned"
  /\ fn_args.input_channels = input_dim
  /\ fn_args.output_channels = label_dim
  /\ fn_args.x = <<2, input_dim, initial_shape, initial_shape>>
  /\ fn_ret.shape[3] = target_shape

----------------------------------------------------------------------------
(* get_gen_loss of Pix2Pix.  Its arguments gen, disc, adv_criterion and
   recon_criterion are callables, here names of functions on batches of one
   value per image. *)

\* batches with the given values
BatchesOf(values) == [Samples -> values]

\* the generators: torch.zeros_like and lambda x: real + 1 of the unit
\* test, and one that depends on its argument
Gens == {"zeros_like", "real_plus_one", "negate"}

call_gen(gen, x, real_images) ==
  CASE gen = "zeros_like" -> [n \in Samples |-> RInt(0)]
    [] gen = "real_plus_one" ->
         [n \in Samples |-> RAdd(real_images[n], RInt(1))]
    [] gen = "negate" -> [n \in Samples |-> RSub(RInt(0), x[n])]

\* the discriminators: lambda x, y: torch.ones(len(x), 1) and
\* lambda x, y: torch.zeros(len(x), 1) of the unit test, and one that
\* depends on both arguments and on their order
Discs == {"ones", "zeros", "x_plus_2y"}

call_disc(disc, x, y) ==
  CASE disc = "ones" -> [n \in Samples |-> RInt(1)]
    [] disc = "zeros" -> [n \in Samples |-> RInt(0)]
    [] disc = "x_plus_2y" ->
         [n \in Samples |-> RAdd(x[n], RMul(RInt(2), y[n]))]

\* the adversarial criteria: lambda x, y: torch.tensor(0) of the unit test
\* and the mean of target - prediction
AdvCriteria == {"zero", "mean_target_minus_pred"}

call_adv_criterion(criterion, pred, target) ==
  CASE criterion = "zero" -> RInt(0)
    [] criterion = "mean_target_minus_pred" ->
         Mean([n \in Samples |-> RSub(target[n], pred[n])])

RAbs(a) == <<Abs(a[1]), a[2]>>

\* the reconstruction criteria: lambda x, y: torch.tensor(0) of the unit
\* test and nn.L1Loss()
ReconCriteria == {"zero", "L1Loss"}

call_recon_criterion(criterion, x, y) ==
  CASE criterion = "zero" -> RInt(0)
    [] criterion = "L1Loss" ->
         Mean([n \in Samples |-> RAbs(RSub(x[n], y[n]))])

\* torch.ones_like(pred)
ones_like(t) == [n \in DOMAIN t |-> RInt(1)]

\* a call of a callable, as the callable sees it
Call(fn, args) == [fn |-> fn, args |-> args]

\* a mutant of get_gen_loss: the discriminator is not given the condition
get_gen_loss_unconditioned(gen, disc, real_images, condition, adv_criterion, recon_criterion, lambda_recon) ==
  LET fake_images == call_gen(gen, condition, real_images)
      pred == call_disc(disc, fake_images, fake_images)
      ones == ones_like(pred)
      adv_loss == call_adv_criterion(adv_criterion, pred, ones)
      recon_loss == call_recon_criterion(recon_criterion, fake_images,
                                         real_images)
  IN  [gen_loss |-> RAdd(adv_loss, RMul(lambda_recon, recon_loss)),
       calls |-> <<Call("gen", <<condition>>),
                   Call("disc", <<fake_images, fake_images>>),
                   Call("adv_criterion", <<pred, ones>>),
                   Call("recon_criterion", <<fake_images, real_images>>)>>]

\* get_gen_loss(gen, disc, real, condition, adv_criterion, recon_criterion,
\* lambda_recon): the returned loss and the calls made on the way
get_gen_loss(gen, disc, real_images, condition, adv_criterion, recon_criterion, lambda_recon) ==
  LET fake_images == call_gen(gen, condition, real_images)
      pred == call_disc(disc, fake_images, condition)
      ones == ones_like(pred)
      adv_loss == call_adv_criterion(adv_criterion, pred, ones)
      recon_loss == call_recon_criterion(recon_criterion, fake_images,
                                         real_images)
  IN  [gen_loss |-> RAdd(adv_loss, RMul(lambda_recon, recon_loss)),
       calls |-> <<Call("gen", <<condition>>),
                   Call("disc", <<fake_images, condition>>),
                   Call("adv_criterion", <<pred, ones>>),
                   Call("recon_criterion", <<fake_images, real_images>>)>>]

\* the weights of the reconstruction loss: 0 and 2 in the unit test
LambdaRecons == {RInt(0), RInt(2)}

InitGenLoss ==
  /\ fn_pc = "call"
  /\ fn_args \in [gen : Gens, disc : Discs,
                  real : BatchesOf({RInt(0), RInt(2)}),
                  condition : BatchesOf({RInt(1), RInt(3)}),
                  adv_criterion : AdvCriteria,
                  recon_criterion : ReconCriteria,
                  lambda_recon : LambdaRecons]
  /\ fn_ret = <<>>
  /\ IdleBut("fn")

GetGenLoss ==
  /\ fn_pc = "call"
  /\ fn_ret' = get_gen_loss(fn_args.gen, fn_args.disc, fn_args.real,
                            fn_args.condition, fn_args.adv_criterion,
                            fn_args.recon_criterion, fn_args.lambda_recon)
  /\ fn_pc' = "returned"
  /\ UNCHANGED fn_args
  /\ UNCHANGED fnRest

NextGenLoss == GetGenLoss

SpecGenLoss == InitGenLoss /\ [][NextGenLoss]_vars

\* C19: the generator is called once, with the condition alone; the
\* discriminator with the generator's output and the condition, in this
\* order; the adversarial criterion with the discriminator's prediction
\* and a target of ones; the reconstruction criterion with the generator's
\* output and the real images.  The loss is the adversarial loss plus
\* lambda_recon times the reconstruction loss, the adversarial loss alone
\* when lambda_recon = 0.
C19_GenLoss ==
  fn_pc = "returned" =>
    LET a == fn_args
        fake_images == call_gen(a.gen, a.condition, a.real)
        pred == call_disc(a.disc, fake_images, a.condition)
        adv_loss == call_adv_criterion(a.adv_criterion, pred,
                                       [n \in Samples |-> RInt(1)])
        recon_loss == call_recon_criterion(a.recon_criterion, fake_images,
                                           a.real)
    IN  /\ Len(fn_ret.calls) = 4
        /\ fn_ret.calls[1] = Call("gen", <<a.condition>>)
        /\ fn_ret.calls[2] = Call("disc", <<fake_images, a.condition>>)
        /\ fn_ret.calls[3].fn = "adv_criterion"
        /\ fn_ret.calls[3].args[1] = pred
        /\ \A n \in Samples : fn_ret.calls[3].args[2][n] = RInt(1)
        /\ fn_ret.calls[4] = Call("recon_criterion", <<fake_images, a.real>>)
        /\ fn_ret.gen_loss = RAdd(adv_loss, RMul(a.lambda_recon, recon_loss))
        /\ a.lambda_recon = RInt(0) => fn_ret.gen_loss = adv_loss

\* a call in which every part of the loss matters: the generator and the
\* discriminator depend on their arguments, the reconstruction loss is not
\* zero and is weighted
C19_Witness ==
  /\ fn_pc = "returned"
  /\ fn_args.gen = "negate"
  /\ fn_args.disc = "x_plus_2y"
  /\ fn_args.adv_criterion = "mean_target_minus_pred"
  /\ fn_args.recon_criterion = "L1Loss"
  /\ fn_args.lambda_recon = RInt(2)
  /\ fn_ret.calls[4].args[1] # fn_ret.calls[4].args[2]
  /\ fn_ret.gen_loss # RInt(0)

----------------------------------------------------------------------------
(* positional_encoding of the NeRF notebook.  The entries of the encoding
   are kept as terms fn(arg) of a coordinate, with arg = rat + pi_mult * pi
   for rationals rat and pi_mult, so that sin(2^i p) and sin(2^i pi p) are
   told apart. *)

\* the coordinates of a point
Coords == 1..PosDims

\* the points to encode
Points == [Coords -> {RInt(0), RInt(1), HALF, RInt(-1)}]

\* the number rat + pi_mult * pi
Arg(rat, pi_mult) == [rat |-> rat, pi_mult |-> pi_mult]

\* the entry fn(arg) of the encoding of coordinate coord
Term(fn, coord, arg) == [fn |-> fn, coord |-> coord, arg |-> arg]

\* the tensor x itself
identity(x) == [c \in Coords |-> Term("id", c, Arg(x[c], RInt(0)))]

\* fn(2 ** i * x) for fn = torch.sin or torch.cos, elementwise
encode(fn, i, x) ==
  [c \in Coords |-> Term(fn, c, Arg(RMul(RInt(2 ^ i), x[c]), RInt(0)))]

\* rets after the first n passes of `for i in range(L_embed)`, joined by
\* torch.cat(rets, dim=-1)
RECURSIVE encoding_loop(_, _)
encoding_loop(x, n) ==
  IF n = 0 THEN identity(x)
  ELSE encoding_loop(x, n - 1) \o encode("sin", n - 1, x)
         \o encode("cos", n - 1, x)

\* positional_encoding(x, L_embed)
positional_encoding(x, L_embed) == encoding_loop(x, L_embed)

InitPositional ==
  /\ fn_pc = "call"
  /\ fn_args \in [x : Points, L_embed : 0..MaxL]
  /\ fn_ret = <<>>
  /\ IdleBut("fn")

PositionalEncoding ==
  /\ fn_pc = "call"
  /\ fn_ret' = positional_encoding(fn_args.x, fn_args.L_embed)
  /\ fn_pc' = "returned"
  /\ UNCHANGED fn_args
  /\ UNCHANGED fnRest

NextPositional == PositionalEncoding

SpecPositional == InitPositional /\ [][NextPositional]_vars

\* the entries of an encoding that belong to coordinate c, in their order
RECURSIVE OfCoord(_, _)
OfCoord(enc, c) ==
  IF enc = <<>> THEN <<>>
  ELSE IF Head(enc).coord = c THEN <<Head(enc)>> \o OfCoord(Tail(enc), c)
  ELSE OfCoord(Tail(enc), c)

\* gamma(p) of the notebook for coordinate c:
\* (sin(2^0 pi p), cos(2^0 pi p), ..., sin(2^(L-1) pi p), cos(2^(L-1) pi p))
RECURSIVE gamma(_, _, _)
gamma(p, c, L) ==
  IF L = 0 THEN <<>>
  ELSE gamma(p, c, L - 1)
         \o <<Term("sin", c, Arg(RInt(0), RMul(RInt(2 ^ (L - 1)), p))),
              Term("cos", c, Arg(RInt(0), RMul(RInt(2 ^ (L - 1)), p)))>>

\* C20: the encoding holds for each coordinate p exactly the 2*L_embed
\* terms of gamma(p), in the order of gamma.
C20_EncodingIsGamma ==
  fn_pc = "returned" =>
    /\ Len(fn_ret) = 2 * fn_args.L_embed * PosDims
    /\ \A c \in Coords :
         OfCoord(fn_ret, c) = gamma(fn_args.x[c], c, fn_args.L_embed)

----------------------------------------------------------------------------
(* The optimizer steps of the adversarial training loops *)

\* the networks whose parameters an optimizer of these loops updates
Nets == {"gen", "disc", "crit"}

\* an argument of a call: the tensor bound to a name, detached or not
Use(name) == [name |-> name, detach |-> FALSE]
Detached(name) == [name |-> name, detach |-> TRUE]

\* the statements of a loop body
ZeroGrad(opt) == [op |-> "zero_grad", net |-> opt, out |-> "", ins |-> <<>>, no_grad |-> FALSE]
NetCall(out, net, ins) == [op |-> "call", net |-> net, out |-> out, ins |-> ins, no_grad |-> FALSE]
NetCallNoGrad(out, net, ins) == [op |-> "call", net |-> net, out |-> out, ins |-> ins, no_grad |-> TRUE]
Fn(out, ins) == [op |-> "fn", net |-> "", out |-> out, ins |-> ins, no_grad |-> FALSE]
Backward(loss) == [op |-> "backward", net |-> "", out |-> "", ins |-> <<Use(loss)>>, no_grad |-> FALSE]
Step(opt) == [op |-> "step", net |-> opt, out |-> "", ins |-> <<>>, no_grad |-> FALSE]

\* the body of get_gradient, inlined at its call with fake = fake.detach():
\* mixed_images = real * epsilon + fake * (1 - epsilon);
\* mixed_scores = crit(mixed_images); torch.autograd.grad(..., create_graph=True)
GetGradientBody ==
  << NetCall("mixed_scores", "crit", <<Use("real"), Detached("fake"), Use("epsilon")>>),
     Fn("gradient", <<Use("mixed_scores")>>) >>

\* one pass of `for _ in range(crit_repeats)` of the WGAN-GP loop
CriticUpdate ==
  << ZeroGrad("crit"),
     NetCall("fake", "gen", <<Use("fake_noise")>>),
     NetCall("crit_fake_pred", "crit", <<Detached("fake")>>),
     NetCall("crit_real_pred", "crit", <<Use("real")>>) >>
  \o GetGradientBody \o
  << Fn("gp", <<Use("gradient")>>),
     Fn("crit_loss", <<Use("crit_fake_pred"), Use("crit_real_pred"), Use("gp")>>),
     Backward("crit_loss"),
     Step("crit") >>

\* "### Update generator ###" of the WGAN-GP loop
GeneratorUpdate ==
  << ZeroGrad("gen"),
     NetCall("fake_2", "gen", <<Use("fake_noise_2")>>),
     NetCall("crit_fake_pred", "crit", <<Use("fake_2")>>),
     Fn("gen_loss", <<Use("crit_fake_pred")>>),
     Backward("gen_loss"),
     Step("gen") >>

\* body repeated n times
RECURSIVE Repeat(_, _)
Repeat(body, n) == IF n = 0 THEN <<>> ELSE body \o Repeat(body, n - 1)

\* the body of the dataloader loop of the WGAN-GP notebook
WGAN_GP_body == Repeat(CriticUpdate, crit_repeats) \o GeneratorUpdate

\* the body of the dataloader loop of the conditional GAN notebook;
\* combine_vectors keeps the graph of its arguments
CGAN_body ==
  << ZeroGrad("disc"),
     NetCall("fake", "gen", <<Use("fake_noise"), Use("one_hot_labels")>>),
     Fn("fake_image_and_labels", <<Detached("fake"), Use("image_one_hot_labels")>>),
     Fn("real_image_and_labels", <<Use("real"), Use("image_one_hot_labels")>>),
     NetCall("disc_fake_pred", "disc", <<Use("fake_image_and_labels")>>),
     NetCall("disc_real_pred", "disc", <<Use("real_image_and_labels")>>),
     Fn("disc_fake_loss", <<Use("disc_fake_pred")>>),
     Fn("disc_real_loss", <<Use("disc_real_pred")>>),
     Fn("disc_loss", <<Use("disc_fake_loss"), Use("disc_real_loss")>>),
     Backward("disc_loss"),
     Step("disc"),
     ZeroGrad("gen"),
     Fn("fake_image_and_labels", <<Use("fake"), Use("image_one_hot_labels")>>),
     NetCall("disc_fake_pred", "disc", <<Use("fake_image_and_labels")>>),
     Fn("gen_loss", <<Use("disc_fake_pred")>>),
     Backward("gen_loss"),
     Step("gen") >>

\* the body of get_gen_loss of the Pix2Pix notebook, inlined at its call;
\* its local fake is kept apart from the fake of train()
GetGenLossBody ==
  << NetCall("get_gen_loss.fake", "gen", <<Use("condition")>>),
     NetCall("pred", "disc", <<Use("get_gen_loss.fake"), Use("condition")>>),
     Fn("adv_loss", <<Use("pred")>>),
     Fn("recon_loss", <<Use("get_gen_loss.fake"), Use("real")>>),
     Fn("gen_loss", <<Use("adv_loss"), Use("recon_loss")>>) >>

\* the body of the dataloader loop of train() of the Pix2Pix notebook
Pix2Pix_body ==
  << ZeroGrad("disc"),
     NetCallNoGrad("fake", "gen", <<Use("condition")>>),
     NetCall("disc_fake_hat", "disc", <<Detached("fake"), Use("condition")>>),
     Fn("disc_fake_loss", <<Use("disc_fake_hat")>>),
     NetCall("disc_real_hat", "disc", <<Use("real"), Use("condition")>>),
     Fn("disc_real_loss", <<Use("disc_real_hat")>>),
     Fn("disc_loss", <<Use("disc_fake_loss"), Use("disc_real_loss")>>),
     Backward("disc_loss"),
     Step("disc"),
     ZeroGrad("gen") >>
  \o GetGenLossBody \o
  << Backward("gen_loss"),
     Step("gen") >>

Loops == {"wgan_gp", "cgan", "pix2pix"}

Body(loop) ==
  CASE loop = "wgan_gp" -> WGAN_GP_body
    [] loop = "cgan" -> CGAN_body
    [] loop = "pix2pix" -> Pix2Pix_body

\* the names a body reads or binds
Names(body) ==
  UNION {{body[i].out} \cup {body[i].ins[j].name : j \in DOMAIN body[i].ins} :
           i \in DOMAIN body}

\* no network's parameters in the graph
NoGraph == [n \in Nets |-> {}]

\* a tensor: for each network the forward passes through it that the
\* tensor's graph holds, the statement and the iteration that computed it
Data == [graph |-> NoGraph, at |-> 0, iter |-> 0]

\* a mutant of detach: the result stays attached to the graph
detach_attached(t) == t

\* t.detach(): the same values, cut from the graph
detach(t) == [t EXCEPT !.graph = NoGraph]

\* the tensors passed by the arguments ins
Args(env, ins) ==
  [j \in DOMAIN ins |->
     IF ins[j].detach THEN detach(env[ins[j].name]) ELSE env[ins[j].name]]

\* the graph of a function of the tensors ts
Join(ts) == [n \in Nets |-> UNION {ts[j].graph[n] : j \in DOMAIN ts}]

\* loss.backward(): the gradient of the loss is added to .grad of the
\* parameters its graph reaches
backward(grad, name, loss, now) ==
  [n \in Nets |->
     IF loss.graph[n] # {}
       THEN Append(grad[n],
                   [loss |-> name, iter |-> loss.iter, forward |-> loss.graph[n],
                    computed |-> loss.at, backward |-> now])
       ELSE grad[n]]

\* a step() that never happened
NoStep == [applied |-> <<>>, at |-> 0, iter |-> 0, prev |-> 0]

\* the statement at tr_pc
Stmt == Body(tr_loop)[tr_pc]

\* the loop's optimizers and networks are built, no gradient yet
InitTrain ==
  /\ tr_loop \in Loops
  /\ tr_pc = 0
  /\ tr_epochs \in 1..MaxEpochs
  /\ tr_batches \in 1..MaxBatches
  /\ tr_epoch = 0 /\ tr_batch = 0 /\ tr_iter = 0 /\ tr_clock = 0
  /\ tr_env = [x \in Names(Body(tr_loop)) |-> Data]
  /\ tr_grad = [n \in Nets |-> <<>>]
  /\ tr_cleared = [n \in Nets |-> <<>>]
  /\ tr_last_step = [n \in Nets |-> NoStep]
  /\ IdleBut("tr")

\* for epoch in range(n_epochs): ... for batch in tqdm(dataloader):
TrainLoopHead ==
  /\ tr_pc = 0
  /\ tr_epoch < tr_epochs
  /\ UNCHANGED trRest
  /\ IF tr_batch < tr_batches
       THEN /\ tr_pc' = 1
            /\ tr_iter' = tr_iter + 1
            /\ UNCHANGED <<tr_epoch, tr_batch>>
       ELSE /\ tr_epoch' = tr_epoch + 1
            /\ tr_batch' = 0
            /\ UNCHANGED <<tr_pc, tr_iter>>
  /\ UNCHANGED <<tr_loop, tr_epochs, tr_batches, tr_clock, tr_env, tr_grad,
                 tr_cleared, tr_last_step>>

\* control passes to the next statement, or to the next batch
Advance ==
  /\ tr_clock' = tr_clock + 1
  /\ IF tr_pc < Len(Body(tr_loop))
       THEN tr_pc' = tr_pc + 1 /\ UNCHANGED tr_batch
       ELSE tr_pc' = 0 /\ tr_batch' = tr_batch + 1
  /\ UNCHANGED <<tr_loop, tr_epochs, tr_batches, tr_epoch, tr_iter>>
  /\ UNCHANGED trRest

\* opt.zero_grad()
ZeroGradStmt ==
  /\ tr_pc > 0 /\ Stmt.op = "zero_grad"
  /\ tr_cleared' = [tr_cleared EXCEPT ![Stmt.net] = tr_grad[Stmt.net]]
  /\ tr_grad' = [tr_grad EXCEPT ![Stmt.net] = <<>>]
  /\ UNCHANGED <<tr_env, tr_last_step>>
  /\ Advance

\* out = net(ins), under torch.no_grad() or not
CallStmt ==
  /\ tr_pc > 0 /\ Stmt.op = "call"
  /\ LET g == Join(Args(tr_env, Stmt.ins))
         through == [g EXCEPT ![Stmt.net] = g[Stmt.net] \cup {tr_clock + 1}]
     IN tr_env' = [tr_env EXCEPT ![Stmt.out] =
                     [graph |-> IF Stmt.no_grad THEN NoGraph ELSE through,
                      at |-> tr_clock + 1, iter |-> tr_iter]]
  /\ UNCHANGED <<tr_grad, tr_cleared, tr_last_step>>
  /\ Advance

\* out = f(ins) for a differentiable function f without parameters
FnStmt ==
  /\ tr_pc > 0 /\ Stmt.op = "fn"
  /\ tr_env' = [tr_env EXCEPT ![Stmt.out] =
                  [graph |-> Join(Args(tr_env, Stmt.ins)),
                   at |-> tr_clock + 1, iter |-> tr_iter]]
  /\ UNCHANGED <<tr_grad, tr_cleared, tr_last_step>>
  /\ Advance

\* loss.backward()
BackwardStmt ==
  /\ tr_pc > 0 /\ Stmt.op = "backward"
  /\ tr_grad' = backward(tr_grad, Stmt.ins[1].name,
                         Args(tr_env, Stmt.ins)[1], tr_clock + 1)
  /\ UNCHANGED <<tr_env, tr_cleared, tr_last_step>>
  /\ Advance

\* opt.step(): the parameters move along what .grad holds
StepStmt ==
  /\ tr_pc > 0 /\ Stmt.op = "step"
  /\ tr_last_step' = [tr_last_step EXCEPT ![Stmt.net] =
                        [applied |-> tr_grad[Stmt.net], at |-> tr_clock + 1,
                         iter |-> tr_iter, prev |-> tr_last_step[Stmt.net].at]]
  /\ UNCHANGED <<tr_env, tr_grad, tr_cleared>>
  /\ Advance

NextTrain ==
  \/ TrainLoopHead \/ ZeroGradStmt \/ CallStmt \/ FnStmt \/ BackwardStmt
  \/ StepStmt

SpecTrain == InitTrain /\ [][NextTrain]_vars

\* the losses of the discriminator or critic, and of the generator
OwnLosses(n) == IF n = "gen" THEN {"gen_loss"} ELSE {"disc_loss", "crit_loss"}

\* the last step of optimizer n applied one gradient: of its own loss,
\* computed in the iteration of the step and after the optimizer's previous
\* step, from forward passes of the network made since that step, and in
\* the order forward pass, loss, backward pass, step
StepInOrder(n) ==
  LET s == tr_last_step[n] IN
  s.at # 0 =>
    /\ Len(s.applied) = 1
    /\ LET c == s.applied[1] IN
       /\ c.loss \in OwnLosses(n)
       /\ c.iter = s.iter
       /\ c.forward # {}
       /\ \A t \in c.forward : s.prev < t /\ t < c.computed
       /\ c.computed < c.backward
       /\ c.backward < s.at

\* C21: in the WGAN-GP, conditional GAN and Pix2Pix loops every optimizer
\* step applies exactly one gradient, of one loss computed in the current
\* iteration, after forward pass, loss and backward pass in that order; what
\* the other network's loss left in .grad was zeroed before the step; and
\* the discriminator or critic loss never puts gradient on the generator.
C21_StepAppliesOneFreshLoss ==
  tr_loop \in Loops =>
    /\ \A n \in Nets : StepInOrder(n)
    /\ \A n \in Nets : \A i \in DOMAIN tr_grad[n] :
         tr_grad[n][i].loss \notin OwnLosses(n)
           => tr_pc = 0 \/ Stmt.op # "step" \/ Stmt.net # n
    /\ \A i \in DOMAIN tr_grad["gen"] : tr_grad["gen"][i].loss = "gen_loss"

\* the discriminator of the conditional GAN has stepped in the second
\* iteration, after a zero_grad() that discarded the gradient the generator
\* loss of the first iteration had put on it, and the generator after it
C21_Witness ==
  /\ tr_loop = "cgan"
  /\ tr_last_step["disc"].iter = 2
  /\ tr_last_step["gen"].iter = 2
  /\ \E i \in DOMAIN tr_cleared["disc"] :
       tr_cleared["disc"][i].loss = "gen_loss" /\ tr_cleared["disc"][i].iter = 1

====
